---- MODULE Spec2Model ----
(***************************************************************************)
(* Verification model of the local-wallet core.                            *)
(*                                                                         *)
(*   Spec       the Pay Guard: concurrent PayUSDC / PaySOL calls sharing   *)
(*              lastPayTime and payMutex (solana/pay.go).                  *)
(*   SpecRecon  the Transaction Reconciler: parseTransaction applied to    *)
(*              bounded transactions (internal/client/solana.go).          *)
(*   SpecRerun  parseTransaction applied twice to one transaction.         *)
(*   SpecLedger the transaction history: paging, filters and totals.       *)
(*   SpecCodec  formatWithDecimals and parseWithDecimals.                  *)
(*   SpecVault  EncryptWallet, a change of the file, DecryptWallet.        *)
(*   SpecCalls  single calls of DecryptWallet, PayUSDC, PaySOL and         *)
(*              GenerateWallet, with the buffers they leave behind.        *)
(*   SpecGen    GenerateWallet and EncryptWallet calls on one path, step   *)
(*              by step, ReadWalletAddress and cmd/reencrypt_cipher.       *)
(*                                                                         *)
(* Strings that the code formats or parses are sequences of one-character  *)
(* strings, so that formatting is computed and not assumed.                *)
(***************************************************************************)
EXTENDS Integers, Naturals, Sequences, FiniteSets, TLC

VARIABLES
    now,          \* the wall/monotonic clock read by time.Now and time.Since
    ticks,        \* number of clock advances so far (bounds the run)
    lastPayTime,  \* package variable lastPayTime (ZeroTime = unset)
    payMutex,     \* package variable payMutex: TRUE when locked
    pc,           \* per goroutine: position inside PayUSDC / PaySOL
    loc,          \* per goroutine: arguments and locals of the current call
    calls,        \* number of Pay calls started so far (bounds the run)
    tx,           \* reconciler: the transaction handed to parseTransaction
    parsed,       \* reconciler: TRUE once parseTransaction has returned
    entries,      \* reconciler: the slice returned by parseTransaction
    rerun,        \* reconciler: what a second run on the same transaction returned
    req,          \* history: the LogRequest built from the query
    sigs,         \* history: signature lists the chain returns (owner, ata)
    pending,      \* history: keys of signatureSet not yet iterated (with count)
    fetches,      \* history: GetTransaction + parseTransaction calls per signature
    transactions, \* history: the slice being built, then the returned ledger
    resp,         \* history: the response or error given to the caller
    hpc,          \* history: position inside TransactionHistory
    codecIn,      \* codec: the value or the text handed to the codec
    codecOut,     \* codec: what format and parse returned
    cpc,          \* codec: position of the codec run
    disk,         \* vault: content of the file at the vault path
    vaultIn,      \* vault: arguments of EncryptWallet and DecryptWallet
    vaultOut,     \* vault: what EncryptWallet and DecryptWallet returned
    vpc,          \* vault: position of the vault run
    gpc,          \* generation: per goroutine, position inside GenerateWallet
    gloc,         \* generation: per goroutine, arguments, locals and result
    sealLog,      \* generation: the encryptions performed (key, nonce, plaintext)
    drawn,        \* generation: number of values rand.Reader has delivered
    callIn,       \* calls: the function called and what it is called with
    callOut,      \* calls: what the call returned and the buffers it left
    kpc           \* calls: position of the call

payVars    == <<now, ticks, lastPayTime, payMutex, pc, loc, calls>>
reconVars  == <<tx, parsed, entries, rerun>>
ledgerVars == <<req, sigs, pending, fetches, transactions, resp, hpc>>
codecVars  == <<codecIn, codecOut, cpc>>
vaultVars  == <<disk, vaultIn, vaultOut, vpc>>
genVars    == <<gpc, gloc, sealLog, drawn>>
callVars   == <<callIn, callOut, kpc>>
vars       == <<now, ticks, lastPayTime, payMutex, pc, loc, calls,
                tx, parsed, entries, rerun,
                req, sigs, pending, fetches, transactions, resp, hpc,
                codecIn, codecOut, cpc,
                disk, vaultIn, vaultOut, vpc,
                gpc, gloc, sealLog, drawn,
                callIn, callOut, kpc>>
nonPayVars    == <<reconVars, ledgerVars, codecVars, vaultVars, genVars, callVars>>
nonReconVars  == <<payVars, ledgerVars, codecVars, vaultVars, genVars, callVars>>
nonLedgerVars == <<payVars, reconVars, codecVars, vaultVars, genVars, callVars>>
nonCodecVars  == <<payVars, reconVars, ledgerVars, vaultVars, genVars, callVars>>
nonVaultVars  == <<payVars, reconVars, ledgerVars, codecVars, genVars, callVars>>
\* disk is shared by the vault, the single calls and the generation
nonGenVars    == <<payVars, reconVars, ledgerVars, codecVars, callVars>>

(***************************************************************************)
(* Bounds of the model.                                                    *)
(***************************************************************************)
TicksPerSecond == 2     \* clock resolution of the model: ticks per second
MaxTicks == 3           \* clock advances per run
MaxCalls == 3           \* Pay calls started per run

\* uint64 arithmetic at the width of the model: values wrap at UintModulus
UintModulus == 134217728
MaxUint == UintModulus - 1

Goroutines == {"g1", "g2"}

(***************************************************************************)
(* Time.                                                                   *)
(***************************************************************************)
Second == TicksPerSecond
Minute == 60 * Second
ZeroTime == 0
StartTime == ZeroTime + 1
solFeeLamports == 5000

IsZero(t) == t = ZeroTime

\* time.Since(t) at clock value n
Since(t, n) == n - t

\* time.Duration(cooldownMinutes) * time.Minute
CooldownDuration(mins) == mins * Minute

Abs(x) == IF x < 0 THEN 0 - x ELSE x

\* Duration.Round(m): nearest multiple of m, halfway values away from zero
RoundDuration(d, m) ==
    IF m <= 0 THEN d
    ELSE LET r == Abs(d) % m
         IN IF d < 0
            THEN (IF r + r < m THEN d + r ELSE d - m + r)
            ELSE (IF r + r < m THEN d - r ELSE d + m - r)

\* Amounts by which the clock advances between two steps
TickSteps == {1, Minute - 1, Minute}

CooldownChoices == {0, 1}

PayFns == {"PayUSDC", "PaySOL"}

NoLoc == [fn |-> "none", mins |-> 0, observed |-> ZeroTime, checkAt |-> ZeroTime,
          remaining |-> 0, shown |-> 0, reached |-> {}, writes |-> 0,
          ret |-> "none"]

InitPay ==
    /\ now = StartTime
    /\ ticks = 0
    /\ lastPayTime = ZeroTime
    /\ payMutex = FALSE
    /\ pc = [g \in Goroutines |-> "idle"]
    /\ loc = [g \in Goroutines |-> NoLoc]
    /\ calls = 0

(***************************************************************************)
(* The body of PayUSDC / PaySOL between the cooldown check and the         *)
(* submission.  env is what the collaborators answer during this call.     *)
(***************************************************************************)
ParseErr == 0 - 1

FailPoints == {"none", "read", "decrypt", "keylen", "pubkey", "keymatch",
               "client", "balance"}

\* The balances and the parsed amount matter only when no call fails
PayEnvs ==
    [failAt : FailPoints \ {"none"}, usdcBal : {0}, solBal : {0}, amount : {ParseErr}]
    \cup [failAt : {"none"},
          usdcBal : {0, solFeeLamports},
          solBal : {solFeeLamports - 1, solFeeLamports, 2 * solFeeLamports},
          amount : {ParseErr, solFeeLamports}]

\* The collaborators a call touches when its body runs under env
BodyReached(env) ==
    {"vault"}
    \cup (IF env.failAt = "read" THEN {} ELSE {"decrypt"})
    \cup (IF env.failAt \in {"none", "balance"} THEN {"chain"} ELSE {})

\* Result of the body: "pass" (go on to submit) or the error returned
PayBody(fn, env) ==
    IF env.failAt = "read" THEN "failed to read wallet address"
    ELSE IF env.failAt = "decrypt" THEN "failed to decrypt wallet"
    ELSE IF env.failAt = "keylen" THEN "invalid private key length"
    ELSE IF env.failAt = "pubkey" THEN "invalid address"
    ELSE IF env.failAt = "keymatch" THEN "private key does not match address"
    ELSE IF env.failAt = "client" THEN "failed to create Solana client"
    ELSE IF env.failAt = "balance" THEN "failed to check balance"
    ELSE IF env.amount = ParseErr THEN "invalid amount"
    ELSE IF fn = "PayUSDC"
         THEN (IF env.usdcBal < env.amount THEN "insufficient USDC balance"
               ELSE IF env.solBal < solFeeLamports
                    THEN "insufficient SOL for transaction fee"
               ELSE "pass")
         ELSE LET requiredLamports == (env.amount + solFeeLamports) % UintModulus
              IN IF env.solBal < requiredLamports
                 THEN "insufficient SOL balance"
                 ELSE "pass"

\* Mutant of CooldownActive: the comparison made inclusive
CooldownActiveInclusive(last, n, mins) ==
    /\ ~IsZero(last)
    /\ Since(last, n) <= CooldownDuration(mins)

\* The guard of the cooldown check: lastPayTime set and too recent
CooldownActive(last, n, mins) ==
    /\ ~IsZero(last)
    /\ Since(last, n) < CooldownDuration(mins)

\* Mutant of CanLock: Lock() returns although the mutex is held
CanLockAlways == TRUE

\* payMutex.Lock() can return
CanLock == ~payMutex

InCritical(g) == pc[g] \in {"check", "remaining", "body", "submit", "stamp", "unlock"}

\* if !isValidSolanaAddress(toAddress) { return nil, error }: the call returns
\* before the lock is taken and touches no shared state
RejectAddress(g) ==
    /\ pc[g] = "idle"
    /\ calls < MaxCalls
    /\ calls' = calls + 1
    /\ UNCHANGED <<now, ticks, lastPayTime, payMutex, pc, loc>>
    /\ UNCHANGED nonPayVars

\* Entry of PayUSDC / PaySOL with a valid recipient address
Begin(g) ==
    /\ pc[g] = "idle"
    /\ calls < MaxCalls
    /\ calls' = calls + 1
    /\ \E fn \in PayFns, mins \in CooldownChoices :
          loc' = [loc EXCEPT ![g] = [NoLoc EXCEPT !.fn = fn, !.mins = mins]]
    /\ pc' = [pc EXCEPT ![g] = "lock"]
    /\ UNCHANGED <<now, ticks, lastPayTime, payMutex>>
    /\ UNCHANGED nonPayVars

\* payMutex.Lock()
Lock(g) ==
    /\ pc[g] = "lock"
    /\ CanLock
    /\ payMutex' = TRUE
    /\ pc' = [pc EXCEPT ![g] = "check"]
    /\ UNCHANGED <<now, ticks, lastPayTime, loc, calls>>
    /\ UNCHANGED nonPayVars

\* if !lastPayTime.IsZero() { if time.Since(lastPayTime) < cooldownDuration ...
CheckCooldown(g) ==
    /\ pc[g] = "check"
    /\ loc' = [loc EXCEPT ![g].observed = lastPayTime, ![g].checkAt = now]
    /\ pc' = [pc EXCEPT ![g] =
                 IF CooldownActive(lastPayTime, now, loc[g].mins)
                 THEN "remaining" ELSE "body"]
    /\ UNCHANGED <<now, ticks, lastPayTime, payMutex, calls>>
    /\ UNCHANGED nonPayVars

\* remaining := cooldownDuration - time.Since(lastPayTime); return error
\* (the clock is read a second time here)
ComputeRemaining(g) ==
    /\ pc[g] = "remaining"
    /\ LET rem == CooldownDuration(loc[g].mins) - Since(lastPayTime, now)
       IN loc' = [loc EXCEPT ![g].remaining = rem,
                             ![g].shown = RoundDuration(rem, Second),
                             ![g].ret = "cooldown active"]
    /\ pc' = [pc EXCEPT ![g] = "unlock"]
    /\ UNCHANGED <<now, ticks, lastPayTime, payMutex, calls>>
    /\ UNCHANGED nonPayVars

\* read address, decrypt, verify key, create client, fetch and check balances
Body(g) ==
    /\ pc[g] = "body"
    /\ \E env \in PayEnvs :
          LET r == PayBody(loc[g].fn, env)
          IN /\ loc' = [loc EXCEPT ![g].reached = BodyReached(env),
                                   ![g].ret = IF r = "pass" THEN "none" ELSE r]
             /\ pc' = [pc EXCEPT ![g] = IF r = "pass" THEN "submit" ELSE "unlock"]
    /\ UNCHANGED <<now, ticks, lastPayTime, payMutex, calls>>
    /\ UNCHANGED nonPayVars

\* Mutant of Submit: the timestamp is written when the submission is attempted
SubmitStampsAttempt(g) ==
    /\ pc[g] = "submit"
    /\ lastPayTime' = now
    /\ \E accepted \in BOOLEAN :
          /\ loc' = [loc EXCEPT ![g].reached = @ \cup {"submit"},
                                ![g].writes = @ + 1,
                                ![g].ret = IF accepted THEN "ok"
                                           ELSE "failed to send transaction"]
          /\ pc' = [pc EXCEPT ![g] = "unlock"]
    /\ UNCHANGED <<now, ticks, payMutex, calls>>
    /\ UNCHANGED nonPayVars

\* Mutant of Submit: the lock is not held while the submission is in progress
SubmitReleasesLock(g) ==
    /\ pc[g] = "submit"
    /\ payMutex' = FALSE
    /\ \E accepted \in BOOLEAN :
          /\ loc' = [loc EXCEPT ![g].reached = @ \cup {"submit"},
                                ![g].ret = IF accepted THEN "none"
                                           ELSE "failed to send transaction"]
          /\ pc' = [pc EXCEPT ![g] = IF accepted THEN "stamp" ELSE "unlock"]
    /\ UNCHANGED <<now, ticks, lastPayTime, calls>>
    /\ UNCHANGED nonPayVars

\* txID, err := solanaClient.CreateUSDCTransaction / CreateSOLTransaction
Submit(g) ==
    /\ pc[g] = "submit"
    /\ \E accepted \in BOOLEAN :
          /\ loc' = [loc EXCEPT ![g].reached = @ \cup {"submit"},
                                ![g].ret = IF accepted THEN "none"
                                           ELSE "failed to send transaction"]
          /\ pc' = [pc EXCEPT ![g] = IF accepted THEN "stamp" ELSE "unlock"]
    /\ UNCHANGED <<now, ticks, lastPayTime, payMutex, calls>>
    /\ UNCHANGED nonPayVars

\* lastPayTime = time.Now(); return &model.PayResponse{...}, nil
Stamp(g) ==
    /\ pc[g] = "stamp"
    /\ lastPayTime' = now
    /\ loc' = [loc EXCEPT ![g].writes = @ + 1, ![g].ret = "ok"]
    /\ pc' = [pc EXCEPT ![g] = "unlock"]
    /\ UNCHANGED <<now, ticks, payMutex, calls>>
    /\ UNCHANGED nonPayVars

\* defer payMutex.Unlock(), run on every return after the lock was taken;
\* the call's result (loc[g].ret) is handed to the caller and the frame is gone
Unlock(g) ==
    /\ pc[g] = "unlock"
    /\ payMutex' = FALSE
    /\ pc' = [pc EXCEPT ![g] = "idle"]
    /\ loc' = [loc EXCEPT ![g] = NoLoc]
    /\ UNCHANGED <<now, ticks, lastPayTime, calls>>
    /\ UNCHANGED nonPayVars

\* Time passes between any two steps
Tick ==
    /\ ticks < MaxTicks
    /\ \E d \in TickSteps : now' = now + d
    /\ ticks' = ticks + 1
    /\ UNCHANGED <<lastPayTime, payMutex, pc, loc, calls>>
    /\ UNCHANGED nonPayVars

\* The reconciler is not part of the pay guard runs
NoTx == [signature |-> "none"]

InitReconIdle ==
    /\ tx = NoTx
    /\ parsed = FALSE
    /\ entries = << >>
    /\ rerun = [done |-> FALSE]

\* var req model.LogRequest: every filter pointer nil.  A nil string pointer is
\* "", a nil time is NilTime and a nil amount is the empty character sequence
\* (the handler sets a pointer only for a non-empty query parameter)
NilTime == 0
NoReq == [Type |-> "", TxID |-> "", Currency |-> "", From |-> NilTime, To |-> NilTime,
          MinAmount |-> << >>, MaxAmount |-> << >>]

NoResp == [status |-> 0]

\* The history handler is not part of the pay guard and reconciler runs
InitLedgerIdle ==
    /\ req = NoReq
    /\ sigs = [owner |-> << >>, ata |-> << >>]
    /\ pending = << >>
    /\ fetches = << >>
    /\ transactions = << >>
    /\ resp = NoResp
    /\ hpc = "idle"

\* The codec alone is not run in the other specifications
InitCodecIdle ==
    /\ codecIn = [kind |-> "none"]
    /\ codecOut = [kind |-> "none"]
    /\ cpc = "idle"

\* No vault is written or read in the other specifications
InitVaultIdle ==
    /\ disk = [state |-> "absent"]
    /\ vaultIn = [kind |-> "none"]
    /\ vaultOut = [kind |-> "none"]
    /\ vpc = "idle"

\* No wallet is generated in the other specifications
InitGenIdle ==
    /\ gpc = [g \in Goroutines |-> "idle"]
    /\ gloc = [g \in Goroutines |-> [fn |-> "none"]]
    /\ sealLog = << >>
    /\ drawn = 0

\* No single call is followed in the other specifications
InitCallIdle ==
    /\ callIn = [fn |-> "none"]
    /\ callOut = [outcome |-> "none"]
    /\ kpc = "idle"

InitIdle == InitGenIdle /\ InitCallIdle

Init ==
    InitPay /\ InitReconIdle /\ InitLedgerIdle /\ InitCodecIdle /\ InitVaultIdle /\ InitIdle

Next ==
    \/ \E g \in Goroutines : RejectAddress(g)
    \/ \E g \in Goroutines : Begin(g)
    \/ \E g \in Goroutines : Lock(g)
    \/ \E g \in Goroutines : CheckCooldown(g)
    \/ \E g \in Goroutines : ComputeRemaining(g)
    \/ \E g \in Goroutines : Body(g)
    \/ \E g \in Goroutines : Submit(g)
    \/ \E g \in Goroutines : Stamp(g)
    \/ \E g \in Goroutines : Unlock(g)
    \/ Tick

Spec == Init /\ [][Next]_vars

(***************************************************************************)
(* Amount codec (internal/common): strings are sequences of characters.    *)
(***************************************************************************)
SOLDecimals == 9
USDCDecimals == 6

DigitChars == <<"0", "1", "2", "3", "4", "5", "6", "7", "8", "9">>

DigitValue(c) == CHOOSE d \in 0..9 : DigitChars[d + 1] = c

IsDigit(c) == \E d \in 0..9 : DigitChars[d + 1] = c

\* fmt.Sprintf("%d", value)
RECURSIVE FormatUint(_)
FormatUint(value) ==
    IF value < 10 THEN <<DigitChars[value + 1]>>
    ELSE FormatUint(value \div 10) \o <<DigitChars[(value % 10) + 1]>>

\* for len(s) <= decimals { s = "0" + s }
RECURSIVE PadLeadingZeros(_, _)
PadLeadingZeros(s, decimals) ==
    IF Len(s) <= decimals THEN PadLeadingZeros(<<"0">> \o s, decimals) ELSE s

\* Mutant of formatWithDecimals: the padding with leading zeros is left out
formatWithoutPadding(value, decimals) ==
    LET s == FormatUint(value)
        pos == IF Len(s) > decimals THEN Len(s) - decimals ELSE 0
    IN SubSeq(s, 1, pos) \o <<".">> \o SubSeq(s, pos + 1, Len(s))

formatWithDecimals(value, decimals) ==
    LET s == PadLeadingZeros(FormatUint(value), decimals)
        pos == Len(s) - decimals
    IN SubSeq(s, 1, pos) \o <<".">> \o SubSeq(s, pos + 1, Len(s))

LamportsToSOL(lamports) == formatWithDecimals(lamports, SOLDecimals)

MicroToUSDC(micro) == formatWithDecimals(micro, USDCDecimals)

\* Value of a string of digits
RECURSIVE DigitsValue(_)
DigitsValue(s) ==
    IF Len(s) = 0 THEN 0
    ELSE 10 * DigitsValue(SubSeq(s, 1, Len(s) - 1)) + DigitValue(s[Len(s)])

\* amt, _ := strconv.ParseUint(s, 10, 64): the error is dropped, and a string
\* that is not a number gives 0 (values stay far below 2^64 in this model)
ParseUintOrZero(s) ==
    IF Len(s) > 0 /\ (\A i \in 1..Len(s) : IsDigit(s[i])) THEN DigitsValue(s) ELSE 0

NoErr == "nil"

IsSpace(c) == c = " "

\* strings.TrimSpace(s)
RECURSIVE TrimLeft(_)
TrimLeft(s) ==
    IF Len(s) > 0 /\ IsSpace(Head(s)) THEN TrimLeft(Tail(s)) ELSE s

RECURSIVE TrimRight(_)
TrimRight(s) ==
    IF Len(s) > 0 /\ IsSpace(s[Len(s)]) THEN TrimRight(SubSeq(s, 1, Len(s) - 1)) ELSE s

TrimSpace(s) == TrimRight(TrimLeft(s))

\* strings.Split(s, "."): the parts between the points, cur being the part read
\* so far
RECURSIVE SplitFrom(_, _, _)
SplitFrom(s, i, cur) ==
    IF i > Len(s) THEN <<cur>>
    ELSE IF s[i] = "." THEN <<cur>> \o SplitFrom(s, i + 1, << >>)
    ELSE SplitFrom(s, i + 1, Append(cur, s[i]))

SplitOnPoint(s) == SplitFrom(s, 1, << >>)

\* strconv.ParseUint(s, 10, 64): characters are read left to right; the first
\* non-digit gives a syntax error (value 0), the first step past the largest
\* value gives a range error (largest value)
RECURSIVE ParseUintFrom(_, _, _)
ParseUintFrom(s, i, acc) ==
    IF i > Len(s) THEN [err |-> NoErr, val |-> acc]
    ELSE IF ~IsDigit(s[i]) THEN [err |-> "invalid syntax", val |-> 0]
    ELSE IF acc * 10 + DigitValue(s[i]) > MaxUint
         THEN [err |-> "value out of range", val |-> MaxUint]
    ELSE ParseUintFrom(s, i + 1, acc * 10 + DigitValue(s[i]))

ParseUint(s) ==
    IF Len(s) = 0 THEN [err |-> "invalid syntax", val |-> 0]
    ELSE ParseUintFrom(s, 1, 0)

\* for i := 0; i < decimals; i++ { n *= 10 }: unsigned multiplication wraps
RECURSIVE ScaleUp(_, _)
ScaleUp(n, decimals) ==
    IF decimals = 0 THEN n ELSE ScaleUp((n * 10) % UintModulus, decimals - 1)

\* strings.Repeat("0", k)
RECURSIVE Zeros(_)
Zeros(k) == IF k <= 0 THEN << >> ELSE <<"0">> \o Zeros(k - 1)

\* Pad or truncate fractional part to exact decimals
PadOrTruncate(frac, decimals) ==
    IF Len(frac) < decimals THEN frac \o Zeros(decimals - Len(frac))
    ELSE IF Len(frac) > decimals THEN SubSeq(frac, 1, decimals)
    ELSE frac

\* parseWithDecimals(s, decimals): the pair (value, error) it returns
parseWithDecimals(str, decimals) ==
    LET s == TrimSpace(str)
        parts == SplitOnPoint(s)
    IN IF Len(s) = 0 THEN [err |-> "empty string", val |-> 0]
       ELSE IF Len(parts) = 1
            THEN LET n == ParseUint(parts[1])
                 IN IF n.err # NoErr THEN [err |-> n.err, val |-> 0]
                    ELSE [err |-> NoErr, val |-> ScaleUp(n.val, decimals)]
       ELSE IF Len(parts) # 2 THEN [err |-> "invalid decimal format", val |-> 0]
       ELSE ParseUint(parts[1] \o PadOrTruncate(parts[2], decimals))

\* CompareUSDCAmounts(a, b): -1, 0 or 1, and the error of the first parse that fails
CompareUSDCAmounts(a, b) ==
    LET aVal == parseWithDecimals(a, USDCDecimals)
        bVal == parseWithDecimals(b, USDCDecimals)
    IN IF aVal.err # NoErr THEN [err |-> aVal.err, cmp |-> 0]
       ELSE IF bVal.err # NoErr THEN [err |-> bVal.err, cmp |-> 0]
       ELSE IF aVal.val < bVal.val THEN [err |-> NoErr, cmp |-> 0 - 1]
       ELSE IF aVal.val > bVal.val THEN [err |-> NoErr, cmp |-> 1]
       ELSE [err |-> NoErr, cmp |-> 0]

(***************************************************************************)
(* Transactions handed to parseTransaction.                                *)
(***************************************************************************)
MaxAccounts == 3        \* accounts of a transaction
MaxTokenAccounts == 3   \* token accounts a transaction touches

Owner == "owner"
Keys == {Owner, "alice", "bob"}
NilOwner == "nil"
UsdcMint == "usdc"
OtherMint == "other"

\* Lamport balances and declared fees seen in the bounded transactions
BalVals == {0, 5000, 5005000}
FeeVals == {0, 5000}

\* Token accounts a transaction may touch: mint and owner of each
TokenAccounts ==
    << [mint |-> UsdcMint, owner |-> Owner],
       [mint |-> UsdcMint, owner |-> "alice"],
       [mint |-> UsdcMint, owner |-> "bob"],
       [mint |-> UsdcMint, owner |-> Owner],
       [mint |-> OtherMint, owner |-> Owner],
       [mint |-> UsdcMint, owner |-> NilOwner] >>

Absent == << >>
\* UiTokenAmount.Amount of a token balance entry (Absent: no entry)
TokenAmounts == {Absent, <<"5", "0", "0", "0", "0", "0", "0">>}

\* Sequences of distinct keys of length n
DistinctKeySeqs(n) ==
    {ks \in [1..n -> Keys] : \A i, j \in 1..n : i # j => ks[i] # ks[j]}

\* Pre/post token balance lists of the touched token accounts, in account order
RECURSIVE TokenList(_, _, _)
TokenList(touched, amt, i) ==
    IF i > Len(TokenAccounts) THEN << >>
    ELSE (IF i \in touched /\ amt[i] # Absent
          THEN << [mint |-> TokenAccounts[i].mint,
                   owner |-> TokenAccounts[i].owner,
                   amount |-> amt[i]] >>
          ELSE << >>) \o TokenList(touched, amt, i + 1)

TokenTouches(k) ==
    {t \in SUBSET (1..Len(TokenAccounts)) : Cardinality(t) <= k}

\* tx.BlockTime == nil
NoBlockTime == 0

MakeTx(dec, meta, err, ks, pre, post, fee, preTok, postTok) ==
    [signature |-> "sig", blockTime |-> NoBlockTime,
     decoded |-> dec, hasMeta |-> meta, metaErr |-> err,
     accountKeys |-> ks, preBalances |-> pre, postBalances |-> post, fee |-> fee,
     preTokenBalances |-> preTok, postTokenBalances |-> postTok]

\* Transactions with up to MaxAccounts accounts and no token balances
NativeTx(t) ==
    \E n \in 0..MaxAccounts :
       \E err \in BOOLEAN, ks \in DistinctKeySeqs(n),
          pre \in [1..n -> BalVals], post \in [1..n -> BalVals], fee \in FeeVals :
          t = MakeTx(TRUE, TRUE, err, ks, pre, post, fee, << >>, << >>)

\* Transactions with at most one account and up to MaxTokenAccounts token accounts
TokenTx(t) ==
    \E n \in 0..1, touched \in TokenTouches(MaxTokenAccounts) :
       \E ks \in DistinctKeySeqs(n),
          pre \in [1..n -> BalVals], post \in [1..n -> BalVals], fee \in FeeVals,
          preAmt \in [touched -> TokenAmounts], postAmt \in [touched -> TokenAmounts] :
          t = MakeTx(TRUE, TRUE, FALSE, ks, pre, post, fee,
                     TokenList(touched, preAmt, 1), TokenList(touched, postAmt, 1))

\* Transactions without meta, or whose message does not decode (no account keys)
DegenerateTx(t) ==
    \/ \E ks \in DistinctKeySeqs(1) :
          t = MakeTx(TRUE, FALSE, FALSE, ks, << >>, << >>, 0, << >>, << >>)
    \/ \E touched \in TokenTouches(1) :
          \E err \in BOOLEAN,
             pre \in [1..1 -> BalVals], post \in [1..1 -> BalVals], fee \in FeeVals,
             preAmt \in [touched -> TokenAmounts], postAmt \in [touched -> TokenAmounts] :
             t = MakeTx(FALSE, TRUE, err, << >>, pre, post, fee,
                        TokenList(touched, preAmt, 1), TokenList(touched, postAmt, 1))


(***************************************************************************)
(* parseTransaction (internal/client/solana.go).                           *)
(***************************************************************************)
EmptyString == << >>
ZeroString == <<"0">>

\* for i, key := range accountKeys { if key.Equals(c.ownerPubkey) { ...; break } }
RECURSIVE IndexOfOwner(_, _)
IndexOfOwner(keys, i) ==
    IF i > Len(keys) THEN 0
    ELSE IF keys[i] = Owner THEN i
    ELSE IndexOfOwner(keys, i + 1)

\* ownerSOLDelta: post - pre at the owner's index, 0 when there is none
OwnerSOLDelta(t) ==
    IF t.decoded /\ t.hasMeta /\ IndexOfOwner(t.accountKeys, 1) > 0
    THEN t.postBalances[IndexOfOwner(t.accountKeys, 1)]
         - t.preBalances[IndexOfOwner(t.accountKeys, 1)]
    ELSE 0

\* pre.Mint.Equals(c.mintPublicKey) && pre.Owner != nil
CountsForMint(e) == e.mint = UsdcMint /\ e.owner # NilOwner

\* Sum over a token balance list of the amounts credited to holder
RECURSIVE SumFor(_, _)
SumFor(list, holder) ==
    IF Len(list) = 0 THEN 0
    ELSE (IF CountsForMint(Head(list)) /\ Head(list).owner = holder
          THEN ParseUintOrZero(Head(list).amount) ELSE 0)
         + SumFor(Tail(list), holder)

\* Keys of the map usdcDeltas
DeltaHolders(t) ==
    IF ~t.hasMeta THEN {}
    ELSE {t.preTokenBalances[i].owner :
             i \in {j \in 1..Len(t.preTokenBalances) : CountsForMint(t.preTokenBalances[j])}}
         \cup
         {t.postTokenBalances[i].owner :
             i \in {j \in 1..Len(t.postTokenBalances) : CountsForMint(t.postTokenBalances[j])}}

\* The map usdcDeltas after both loops
UsdcDeltas(t) ==
    [h \in DeltaHolders(t) |->
        SumFor(t.postTokenBalances, h) - SumFor(t.preTokenBalances, h)]

\* ourUSDCDelta := usdcDeltas[ownerPubkeyStr] (0 for a missing key)
OurUSDCDelta(t) ==
    IF Owner \in DeltaHolders(t) THEN UsdcDeltas(t)[Owner] ELSE 0

\* Mutant of IsTokenTransfer: only a positive token delta takes the token branch
IsTokenTransferIfPositive(ourDelta) == ourDelta > 0

\* if ourUSDCDelta != 0
IsTokenTransfer(ourDelta) == ourDelta # 0

\* for owner, delta := range usdcDeltas { if delta < 0 { from = owner; break } }
\* Go iterates a map in an unspecified order: any matching holder may be found
TokenCounterparties(t, wantNegative) ==
    LET found == {h \in DeltaHolders(t) :
                     IF wantNegative THEN UsdcDeltas(t)[h] < 0 ELSE UsdcDeltas(t)[h] > 0}
    IN IF found = {} THEN {EmptyString} ELSE found

\* Mutant of TokenFee: the fee is reported on the incoming (DEBIT) side
TokenFeeOnDebit(txType, solDelta) ==
    IF txType = "DEBIT" /\ solDelta < 0 THEN LamportsToSOL(0 - solDelta) ELSE ZeroString

\* feeStr of a USDC entry: total SOL cost we paid (CREDIT only; DEBIT shows "0")
TokenFee(txType, solDelta) ==
    IF txType = "CREDIT" /\ solDelta < 0 THEN LamportsToSOL(0 - solDelta) ELSE ZeroString

Status(t) == IF t.hasMeta /\ t.metaErr THEN "failed" ELSE "success"

\* timestamp := time.Now(); if tx.BlockTime != nil { timestamp = time.Unix(...) }
Timestamp(t) == IF t.blockTime = NoBlockTime THEN now ELSE t.blockTime

\* The entries the token branch may return
TokenEntries(t) ==
    LET our == OurUSDCDelta(t)
        txType == IF our > 0 THEN "DEBIT" ELSE "CREDIT"
    IN { << [Type |-> txType,
             TxID |-> t.signature,
             From |-> IF our > 0 THEN other ELSE Owner,
             To |-> IF our > 0 THEN Owner ELSE other,
             Amount |-> MicroToUSDC(Abs(our)),
             Currency |-> "USDC",
             OurFeeSOL |-> TokenFee(txType, OwnerSOLDelta(t)),
             Timestamp |-> Timestamp(t),
             Status |-> Status(t)] >>
         : other \in TokenCounterparties(t, our > 0) }

\* Mutant of IsFeePayer: the owner counts as fee payer wherever it appears
IsFeePayerAnywhere(t) == IndexOfOwner(t.accountKeys, 1) > 0

\* isFeePayer := ownerIndex == 0 (the first account)
IsFeePayer(t) == IndexOfOwner(t.accountKeys, 1) = 1

\* Mutant of ActualSOLDelta: the fee is not separated from the transfer
ActualSOLDeltaWithFee(t) == OwnerSOLDelta(t)

\* actualSOLDelta: the owner's delta with the fee added back for the fee payer
ActualSOLDelta(t) ==
    IF IsFeePayer(t) THEN OwnerSOLDelta(t) + t.fee ELSE OwnerSOLDelta(t)

\* Find sender / receiver: the first account, not the owner, whose balance
\* decreased (sender) or increased (receiver)
RECURSIVE FindOther(_, _, _)
FindOther(t, decreased, i) ==
    IF i > Len(t.accountKeys) THEN EmptyString
    ELSE IF t.accountKeys[i] # Owner
            /\ (IF decreased THEN t.preBalances[i] > t.postBalances[i]
                ELSE t.postBalances[i] > t.preBalances[i])
         THEN t.accountKeys[i]
    ELSE FindOther(t, decreased, i + 1)

\* Mutant of FindCounterparty: the loop has no break, the last match wins
RECURSIVE FindOtherLast(_, _, _)
FindOtherLast(t, decreased, i) ==
    IF i < 1 THEN EmptyString
    ELSE IF t.accountKeys[i] # Owner
            /\ (IF decreased THEN t.preBalances[i] > t.postBalances[i]
                ELSE t.postBalances[i] > t.preBalances[i])
         THEN t.accountKeys[i]
    ELSE FindOtherLast(t, decreased, i - 1)

FindCounterpartyLast(t, decreased) == FindOtherLast(t, decreased, Len(t.accountKeys))

FindCounterparty(t, decreased) == FindOther(t, decreased, 1)

\* feeStr of a SOL entry: only for CREDIT when we are the fee payer
NativeFee(t, txType) ==
    IF txType = "CREDIT" /\ IsFeePayer(t) /\ t.hasMeta
    THEN LamportsToSOL(t.fee) ELSE ZeroString

\* The entry the native-coin branch returns (none when nothing was transferred)
NativeEntries(t) ==
    IF OwnerSOLDelta(t) = 0 \/ ~t.decoded \/ ~t.hasMeta THEN << >>
    ELSE IF ActualSOLDelta(t) = 0 THEN << >>
    ELSE LET actual == ActualSOLDelta(t)
             txType == IF actual > 0 THEN "DEBIT" ELSE "CREDIT"
         IN << [Type |-> txType,
                TxID |-> t.signature,
                From |-> IF actual > 0 THEN FindCounterparty(t, TRUE) ELSE Owner,
                To |-> IF actual > 0 THEN Owner ELSE FindCounterparty(t, FALSE),
                Amount |-> LamportsToSOL(Abs(actual)),
                Currency |-> "SOL",
                OurFeeSOL |-> NativeFee(t, txType),
                Timestamp |-> Timestamp(t),
                Status |-> Status(t)] >>

\* The slices parseTransaction may return for t
parseTransaction(t) ==
    IF IsTokenTransfer(OurUSDCDelta(t)) THEN TokenEntries(t) ELSE {NativeEntries(t)}

InitRecon ==
    /\ InitPay
    /\ InitIdle
    /\ InitLedgerIdle
    /\ InitCodecIdle
    /\ InitVaultIdle
    /\ (NativeTx(tx) \/ TokenTx(tx) \/ DegenerateTx(tx))
    /\ parsed = FALSE
    /\ entries = << >>
    /\ rerun = [done |-> FALSE]

\* txList, err := c.parseTransaction(tx, sig)
ParseTransaction ==
    /\ ~parsed
    /\ entries' \in parseTransaction(tx)
    /\ parsed' = TRUE
    /\ UNCHANGED <<tx, rerun>>
    /\ UNCHANGED nonReconVars

NextRecon == ParseTransaction

SpecRecon == InitRecon /\ [][NextRecon]_vars

\* The classifier is run a second time on the same transaction
ParseAgain ==
    /\ parsed
    /\ ~rerun.done
    /\ \E again \in parseTransaction(tx) : rerun' = [done |-> TRUE, entries |-> again]
    /\ UNCHANGED <<tx, parsed, entries>>
    /\ UNCHANGED nonReconVars

InitRerun ==
    /\ InitPay
    /\ InitIdle
    /\ InitLedgerIdle
    /\ InitCodecIdle
    /\ InitVaultIdle
    /\ TokenTx(tx)
    /\ parsed = FALSE
    /\ entries = << >>
    /\ rerun = [done |-> FALSE]

NextRerun == ParseTransaction \/ ParseAgain

SpecRerun == InitRerun /\ [][NextRerun]_vars

(***************************************************************************)
(* Transaction history: the handler TransactionHistory, LogRequest.Validate, *)
(* SolanaClient.GetTransactions and solana.GetTransactions.                  *)
(***************************************************************************)
MaxSigs == 2            \* signatures in each list the chain returns

\* float64 at the precision of the model: FloatPrecision plays the part of
\* 2^53.  A float is kept as a count of millionths; a count that needs more
\* significant binary digits than the precision is rounded to the nearest
\* representable one, halfway cases to the even one.
FloatPrecision == 67108864

RECURSIVE Quantum(_, _)
Quantum(n, q) == IF n \div q < FloatPrecision THEN q ELSE Quantum(n, 2 * q)

RoundToFloat(n) ==
    LET q == Quantum(n, 1)
        m == n \div q
        r == n - m * q
    IN IF 2 * r < q THEN m * q
       ELSE IF 2 * r > q THEN (m + 1) * q
       ELSE IF m % 2 = 0 THEN m * q ELSE (m + 1) * q

\* Signatures known to the chain, and the transaction GetTransaction returns
\* for each
SigNames == {"s1", "s2", "s3", "s4", "s5"}

TokenBalance(holder, amount) ==
    [mint |-> UsdcMint, owner |-> holder, amount |-> amount]

\* s1: 5.000001 USDC received      s2: a large USDC amount received
\* s3: 5.000000 USDC sent          s4: 0.005 SOL sent, no block time
\* s5: only a fee paid (no entry)
Chain(s) ==
    IF s = "s1"
    THEN [MakeTx(TRUE, TRUE, FALSE, <<Owner>>, <<5000>>, <<5000>>, 5000,
                 <<TokenBalance("alice", FormatUint(5000001))>>,
                 <<TokenBalance(Owner, FormatUint(5000001))>>)
          EXCEPT !.signature = s, !.blockTime = 2]
    ELSE IF s = "s2"
    THEN [MakeTx(TRUE, TRUE, FALSE, <<Owner>>, <<5000>>, <<5000>>, 5000,
                 <<TokenBalance("bob", FormatUint(FloatPrecision + 1))>>,
                 <<TokenBalance(Owner, FormatUint(FloatPrecision + 1))>>)
          EXCEPT !.signature = s, !.blockTime = 3]
    ELSE IF s = "s3"
    THEN [MakeTx(TRUE, TRUE, FALSE, <<Owner>>, <<5000>>, <<0>>, 5000,
                 <<TokenBalance(Owner, FormatUint(5000000))>>,
                 <<TokenBalance("alice", FormatUint(5000000))>>)
          EXCEPT !.signature = s, !.blockTime = 2]
    ELSE IF s = "s4"
    THEN [MakeTx(TRUE, TRUE, FALSE, <<Owner, "bob">>, <<5005000, 0>>,
                 <<0, 5000000>>, 5000, << >>, << >>)
          EXCEPT !.signature = s]
    ELSE [MakeTx(TRUE, TRUE, FALSE, <<Owner>>, <<5000>>, <<0>>, 5000, << >>, << >>)
          EXCEPT !.signature = s, !.blockTime = 3]

\* Signature lists of at most MaxSigs signatures, none twice in one list
SigLists ==
    UNION {{l \in [1..n -> SigNames] : \A i, j \in 1..n : i # j => l[i] # l[j]}
           : n \in 0..MaxSigs}

InList(l, s) == \E i \in 1..Len(l) : l[i] = s

Occurrences(l, s) == Cardinality({i \in 1..Len(l) : l[i] = s})

\* Mutant of SignatureCount: the two lists are iterated one after the other
SignatureCountNoDedupe(ownerSigs, ataSigs, s) ==
    Occurrences(ownerSigs, s) + Occurrences(ataSigs, s)

\* signatureSet[sig.Signature.String()] = true, for both lists: the number of
\* times the map holds s as a key
SignatureCount(ownerSigs, ataSigs, s) ==
    IF InList(ownerSigs, s) \/ InList(ataSigs, s) THEN 1 ELSE 0

\* Requests the handler builds from the query
Requests ==
    {NoReq,
     [NoReq EXCEPT !.Type = "DEBIT"],
     [NoReq EXCEPT !.Type = "CREDIT"],
     [NoReq EXCEPT !.Type = "OTHER"],
     [NoReq EXCEPT !.TxID = "s1"],
     [NoReq EXCEPT !.Currency = "USDC"],
     [NoReq EXCEPT !.Currency = "SOL"],
     [NoReq EXCEPT !.Currency = "EUR"],
     [NoReq EXCEPT !.From = 3],
     [NoReq EXCEPT !.To = 2],
     [NoReq EXCEPT !.From = 3, !.To = 2],
     [NoReq EXCEPT !.MinAmount = <<"5", ".", "0", "0", "0", "0", "0", "1">>],
     [NoReq EXCEPT !.MaxAmount = <<"5">>],
     [NoReq EXCEPT !.MinAmount = <<"x">>],
     [NoReq EXCEPT !.MinAmount = <<"x">>, !.MaxAmount = <<"5">>],
     [NoReq EXCEPT !.MinAmount = <<"5">>,
                   !.MaxAmount = <<"5", ".", "0", "0", "0", "0", "0", "1">>],
     [NoReq EXCEPT !.MinAmount = <<"6">>, !.MaxAmount = <<"5">>],
     [NoReq EXCEPT !.MinAmount =
                      <<"0", ".", "0", "0", "5", "0", "0", "0", "0", "0", "1">>],
     [NoReq EXCEPT !.MinAmount = <<"1", "3", "5">>, !.MaxAmount = <<"1">>],
     [NoReq EXCEPT !.MinAmount = <<"1">>, !.MaxAmount = <<"1", "3", "5">>],
     [NoReq EXCEPT !.Type = "DEBIT", !.Currency = "USDC", !.MinAmount = <<"5">>]}

IsNilAmount(a) == Len(a) = 0

\* LogRequest.Validate: the error it returns, NoErr for nil
Validate(r) ==
    IF r.Type # "" /\ r.Type # "DEBIT" /\ r.Type # "CREDIT"
    THEN "type must be DEBIT or CREDIT"
    ELSE IF r.Currency # "" /\ r.Currency # "USDC" /\ r.Currency # "SOL"
    THEN "currency must be USDC or SOL"
    ELSE IF r.From # NilTime /\ r.To # NilTime /\ r.To < r.From
    THEN "to date must be after or equal to from date"
    ELSE IF ~IsNilAmount(r.MinAmount) /\ ~IsNilAmount(r.MaxAmount)
    THEN LET c == CompareUSDCAmounts(r.MinAmount, r.MaxAmount)
         IN IF c.err # NoErr THEN "invalid amount"
            ELSE IF c.cmp = 1
                 THEN "minAmount must be less than or equal to maxAmount"
            ELSE NoErr
    ELSE NoErr

\* The filters of one loop round: "keep", "skip" or the error returned
FilterOne(r, e) ==
    IF r.Type # "" /\ r.Type # e.Type THEN "skip"
    ELSE IF r.TxID # "" /\ r.TxID # e.TxID THEN "skip"
    ELSE IF r.Currency # "" /\ r.Currency # e.Currency THEN "skip"
    ELSE IF r.From # NilTime /\ e.Timestamp < r.From THEN "skip"
    ELSE IF r.To # NilTime /\ e.Timestamp > r.To THEN "skip"
    ELSE IF ~IsNilAmount(r.MinAmount)
            /\ CompareUSDCAmounts(e.Amount, r.MinAmount).err # NoErr
    THEN "failed to compare min amount"
    ELSE IF ~IsNilAmount(r.MinAmount)
            /\ CompareUSDCAmounts(e.Amount, r.MinAmount).cmp < 0
    THEN "skip"
    ELSE IF ~IsNilAmount(r.MaxAmount)
            /\ CompareUSDCAmounts(e.Amount, r.MaxAmount).err # NoErr
    THEN "failed to compare max amount"
    ELSE IF ~IsNilAmount(r.MaxAmount)
            /\ CompareUSDCAmounts(e.Amount, r.MaxAmount).cmp > 0
    THEN "skip"
    ELSE "keep"

\* for _, tx := range solanaTxs { filters; resultTransactions = append(...) }
RECURSIVE FilterFrom(_, _, _, _)
FilterFrom(r, list, i, acc) ==
    IF i > Len(list) THEN [err |-> NoErr, list |-> acc]
    ELSE LET f == FilterOne(r, list[i])
         IN IF f = "keep" THEN FilterFrom(r, list, i + 1, Append(acc, list[i]))
            ELSE IF f = "skip" THEN FilterFrom(r, list, i + 1, acc)
            ELSE [err |-> f, list |-> << >>]

\* Mutant of Less: the comparison of the sort reversed
LessBefore(a, b) == a.Timestamp < b.Timestamp

\* resultTransactions[i].Timestamp.After(resultTransactions[j].Timestamp)
Less(a, b) == a.Timestamp > b.Timestamp

\* sort.Slice(resultTransactions, less): e goes before the first element it is
\* less than.  Entries that compare equal keep the order of the slice, which
\* is itself any order (the ledger is built by ranging over a map).
RECURSIVE InsertOrdered(_, _)
InsertOrdered(sorted, e) ==
    IF Len(sorted) = 0 THEN <<e>>
    ELSE IF Less(e, Head(sorted)) THEN <<e>> \o sorted
    ELSE <<Head(sorted)>> \o InsertOrdered(Tail(sorted), e)

RECURSIVE SortSlice(_, _)
SortSlice(list, i) ==
    IF i = 0 THEN << >>
    ELSE InsertOrdered(SortSlice(list, i - 1), list[i])

\* strconv.ParseFloat(tx.Amount, 64): the float nearest to the amount
ParseFloat(a) ==
    LET parts == SplitOnPoint(a)
        digits == IF Len(parts) = 2
                  THEN parts[1] \o PadOrTruncate(parts[2], USDCDecimals)
                  ELSE << >>
    IN IF Len(parts) = 2 /\ Len(parts[2]) <= USDCDecimals
          /\ ParseUint(digits).err = NoErr
       THEN [err |-> NoErr, val |-> RoundToFloat(ParseUint(digits).val)]
       ELSE [err |-> "invalid syntax", val |-> 0]

\* The entries one total adds up: USDC entries of the type whose amount parses
Counts(e, txType) ==
    /\ e.Currency = "USDC"
    /\ ParseFloat(e.Amount).err = NoErr
    /\ e.Type = txType

\* totalIncomeUSDC += amount / totalSpentUSDC += amount over the slice
RECURSIVE FloatTotal(_, _, _)
FloatTotal(list, i, txType) ==
    IF i = 0 THEN 0
    ELSE IF Counts(list[i], txType)
         THEN RoundToFloat(FloatTotal(list, i - 1, txType)
                           + ParseFloat(list[i].Amount).val)
    ELSE FloatTotal(list, i - 1, txType)

\* fmt.Sprintf("%.6f", f)
SprintfFloat6(f) == formatWithDecimals(f, USDCDecimals)

StatusOK == 200
StatusBadRequest == 400
StatusInternalServerError == 500

ErrorResponse(code, msg) == [status |-> code, error |-> msg]

\* &model.LogResponse{...}
LogResponse(list) ==
    [status |-> StatusOK,
     TotalIncomeUSDC |-> SprintfFloat6(FloatTotal(list, Len(list), "DEBIT")),
     TotalSpentUSDC |-> SprintfFloat6(FloatTotal(list, Len(list), "CREDIT")),
     Transactions |-> list]

InitLedger ==
    /\ InitPay
    /\ InitIdle
    /\ InitReconIdle
    /\ InitCodecIdle
    /\ InitVaultIdle
    /\ req \in Requests
    /\ sigs \in [owner : SigLists, ata : SigLists]
    /\ pending = [s \in SigNames |-> 0]
    /\ fetches = [s \in SigNames |-> 0]
    /\ transactions = << >>
    /\ resp = NoResp
    /\ hpc = "validate"

\* if err := req.Validate(); err != nil { 400; return }
ValidateRequest ==
    /\ hpc = "validate"
    /\ IF Validate(req) # NoErr
       THEN /\ resp' = ErrorResponse(StatusBadRequest, Validate(req))
            /\ hpc' = "done"
       ELSE /\ resp' = resp
            /\ hpc' = "read"
    /\ UNCHANGED <<req, sigs, pending, fetches, transactions>>
    /\ UNCHANGED nonLedgerVars

\* crypto.ReadWalletAddress(filePath); client.NewSolanaClient(address)
ReadAddress ==
    /\ hpc = "read"
    /\ \E ok \in BOOLEAN :
          IF ok
          THEN /\ hpc' = "signatures"
               /\ resp' = resp
          ELSE /\ hpc' = "done"
               /\ resp' = ErrorResponse(StatusInternalServerError,
                                        "failed to read wallet address")
    /\ UNCHANGED <<req, sigs, pending, fetches, transactions>>
    /\ UNCHANGED nonLedgerVars

\* SolanaClient.GetTransactions up to the loop: the token account is looked up
\* (missing: the empty list is returned), both signature lists are fetched
\* and put into signatureSet
CollectSignatures ==
    /\ hpc = "signatures"
    /\ \E outcome \in {"ok", "no token account", "rpc error"} :
          IF outcome = "ok"
          THEN /\ pending' = [s \in SigNames |->
                                 SignatureCount(sigs.owner, sigs.ata, s)]
               /\ hpc' = "fetch"
               /\ resp' = resp
          ELSE IF outcome = "no token account"
          THEN /\ pending' = pending
               /\ hpc' = "fetch"
               /\ resp' = resp
          ELSE /\ pending' = pending
               /\ hpc' = "done"
               /\ resp' = ErrorResponse(StatusInternalServerError, outcome)
    /\ UNCHANGED <<req, sigs, fetches, transactions>>
    /\ UNCHANGED nonLedgerVars

\* One round of for sigStr := range signatureSet: GetTransaction, then
\* parseTransaction, then append.  The map is ranged over in any order.
FetchAndParse ==
    /\ hpc = "fetch"
    /\ \E s \in SigNames :
          /\ pending[s] > 0
          /\ pending' = [pending EXCEPT ![s] = @ - 1]
          /\ fetches' = [fetches EXCEPT ![s] = @ + 1]
          /\ \E ok \in BOOLEAN :
                IF ok
                THEN /\ \E l \in parseTransaction(Chain(s)) :
                           transactions' = transactions \o l
                     /\ hpc' = hpc
                     /\ resp' = resp
                ELSE /\ transactions' = << >>
                     /\ hpc' = "done"
                     /\ resp' = ErrorResponse(StatusInternalServerError, "rpc error")
    /\ UNCHANGED <<req, sigs>>
    /\ UNCHANGED nonLedgerVars

\* return transactions, nil; then the filter loop, the sort and the totals of
\* solana.GetTransactions, and the handler's answer
FilterSortTotal ==
    /\ hpc = "fetch"
    /\ \A s \in SigNames : pending[s] = 0
    /\ LET f == FilterFrom(req, transactions, 1, << >>)
       IN resp' = IF f.err # NoErr
                  THEN ErrorResponse(StatusInternalServerError, f.err)
                  ELSE LogResponse(SortSlice(f.list, Len(f.list)))
    /\ hpc' = "done"
    /\ UNCHANGED <<req, sigs, pending, fetches, transactions>>
    /\ UNCHANGED nonLedgerVars

NextLedger ==
    \/ ValidateRequest
    \/ ReadAddress
    \/ CollectSignatures
    \/ FetchAndParse
    \/ FilterSortTotal

SpecLedger == InitLedger /\ [][NextLedger]_vars

(***************************************************************************)
(* The amount codec on its own: formatWithDecimals and parseWithDecimals     *)
(* applied to bounded values and texts.                                      *)
(***************************************************************************)
MaxSmallValue == 120    \* every value up to this one is formatted

CodecDecimals == {USDCDecimals, SOLDecimals}

\* Values handed to formatWithDecimals: the small ones, values around the
\* powers of ten, and the largest ones
ValueSamples ==
    (0..MaxSmallValue)
    \cup {999999, 1000000, 1000001, 5005000, 24981836, 99999999, 100000000}
    \cup {MaxUint - 2, MaxUint - 1, MaxUint}

Pads == {<< >>, <<" ">>}

WholeTexts ==
    {<< >>, <<"0">>, <<"1">>, <<"1", "0">>, <<"1", "3", "5">>, <<"0", "0", "7">>,
     <<"x">>, <<"1", "x">>, <<"-", "1">>, <<"1", " ", "0">>}

FracTexts ==
    {<< >>, <<"5">>, <<"5", "0">>, <<"5", "0", "0", "0", "0", "0">>,
     <<"5", "0", "0", "0", "0", "0", "9">>,
     <<"1", "2", "3", "4", "5", "6", "7", "8", "9">>,
     <<"1", "2", "3", "4", "5", "6", "7", "8", "9", "1">>,
     <<"x">>, <<"5", "x">>,
     <<"0", "0", "0", "0", "0", "0", "x">>,
     <<"0", "0", "0", "0", "0", "0", "0", "0", "0", "x">>}

\* What follows the integer part: nothing, a point and a fraction, or two
\* points and two fractions
TailTexts ==
    {<< >>}
    \cup {<<".">> \o f : f \in FracTexts}
    \cup {<<".">> \o f \o <<".">> \o g : f \in FracTexts, g \in {<< >>, <<"5">>}}

\* Texts handed to parseWithDecimals
TextInputs ==
    {l \o w \o t \o r : l \in Pads, w \in WholeTexts, t \in TailTexts, r \in Pads}

InitCodec ==
    /\ InitPay
    /\ InitIdle
    /\ InitReconIdle
    /\ InitLedgerIdle
    /\ InitVaultIdle
    /\ \/ codecIn \in [kind : {"format"}, value : ValueSamples,
                       decimals : CodecDecimals, text : {<< >>}]
       \/ codecIn \in [kind : {"parse"}, value : {0},
                       decimals : CodecDecimals, text : TextInputs]
    /\ codecOut = [kind |-> "none"]
    /\ cpc = "start"

\* formatWithDecimals(value, decimals)
Format ==
    /\ cpc = "start"
    /\ codecIn.kind = "format"
    /\ codecOut' = [kind |-> "formatted",
                    text |-> formatWithDecimals(codecIn.value, codecIn.decimals)]
    /\ cpc' = "formatted"
    /\ UNCHANGED codecIn
    /\ UNCHANGED nonCodecVars

\* parseWithDecimals applied to the text formatWithDecimals returned
ParseBack ==
    /\ cpc = "formatted"
    /\ codecOut' = [kind |-> "parsed", text |-> codecOut.text,
                    res |-> parseWithDecimals(codecOut.text, codecIn.decimals)]
    /\ cpc' = "done"
    /\ UNCHANGED codecIn
    /\ UNCHANGED nonCodecVars

\* parseWithDecimals(text, decimals)
Parse ==
    /\ cpc = "start"
    /\ codecIn.kind = "parse"
    /\ codecOut' = [kind |-> "parsed", text |-> codecIn.text,
                    res |-> parseWithDecimals(codecIn.text, codecIn.decimals)]
    /\ cpc' = "done"
    /\ UNCHANGED codecIn
    /\ UNCHANGED nonCodecVars

NextCodec == Format \/ ParseBack \/ Parse

SpecCodec == InitCodec /\ [][NextCodec]_vars

(***************************************************************************)
(* The vault (internal/crypto): EncryptWallet and DecryptWallet.             *)
(*                                                                           *)
(* Byte strings are records [len, kind, body].  The library primitives are   *)
(* modelled by their contracts: scrypt.Key is a function of password, salt   *)
(* and parameters; AES-GCM Open returns the plaintext only for the key and   *)
(* nonce of the Seal that made the ciphertext; base64 decoding                *)
(* inverts encoding and refuses any other text.                              *)
(***************************************************************************)
scryptN == 262144
scryptR == 8
scryptP == 1
scryptKeyLen == 32
saltLen == 32
nonceLen == 12

\* cipher.NewGCM: standard nonce size and tag size
gcmNonceSize == 12
gcmTagSize == 16

privateKeyLen == 64

\* Values rand.Reader may deliver
RandomValues == {"r1", "r2"}

Bytes(n, v) == [len |-> n, kind |-> "random", body |-> <<v>>]

\* make([]byte, n); io.ReadFull(rand.Reader, b)
RandomBytes(n) == {Bytes(n, v) : v \in RandomValues}

\* base64.StdEncoding.EncodeToString
EncodeToString(b) == [enc |-> "base64", bytes |-> b]

\* A text that is not base64
NotBase64 == [enc |-> "garbage", bytes |-> Bytes(0, "none")]

\* base64.StdEncoding.DecodeString
DecodeString(t) ==
    IF t.enc = "base64" THEN [err |-> NoErr, bytes |-> t.bytes]
    ELSE [err |-> "illegal base64 data", bytes |-> Bytes(0, "none")]

\* Mutant of DeriveKey: the password does not enter the key
DeriveKeyFromSaltOnly(password, salt) ==
    [len |-> scryptKeyLen, kind |-> "key",
     body |-> <<"", salt, scryptN, scryptR, scryptP>>]

\* scrypt.Key(password, salt, scryptN, scryptR, scryptP, scryptKeyLen)
DeriveKey(password, salt) ==
    [len |-> scryptKeyLen, kind |-> "key",
     body |-> <<password, salt, scryptN, scryptR, scryptP>>]

\* aes.NewCipher(key): the key sizes AES accepts
NewCipherErr(key) ==
    IF key.len \in {16, 24, 32} THEN NoErr ELSE "failed to create cipher"

\* json.Marshal(walletData)
MarshalWallet(w) ==
    [len |-> w.PrivateKey.len + Len(w.CreatedAt), kind |-> "json", body |-> <<w>>]

\* aesGCM.Seal(nil, nonce, plaintext, nil)
Seal(key, nonce, plaintext) ==
    [len |-> plaintext.len + gcmTagSize, kind |-> "sealed",
     body |-> <<key, nonce, plaintext>>]

\* aesGCM.Open(nil, nonce, ciphertext, nil): panics on a nonce of another
\* length than the standard one; fails unless the ciphertext is the Seal
\* of this key and nonce
Open(key, nonce, ciphertext) ==
    IF nonce.len # gcmNonceSize THEN [outcome |-> "panic"]
    ELSE IF ciphertext.len < gcmTagSize THEN [outcome |-> "error"]
    ELSE IF ciphertext.kind # "sealed" THEN [outcome |-> "error"]
    ELSE IF ciphertext.body[1] = key /\ ciphertext.body[2] = nonce
            /\ ciphertext.len = ciphertext.body[3].len + gcmTagSize
         THEN [outcome |-> "ok", plaintext |-> ciphertext.body[3]]
    ELSE [outcome |-> "error"]

NoDoc == [Network |-> "", Address |-> "", QR |-> "",
          Salt |-> NotBase64, Nonce |-> NotBase64, CipherText |-> NotBase64]

NoWallet == [PrivateKey |-> Bytes(0, "none"), CreatedAt |-> << >>]

AbsentFile == [state |-> "absent", bom |-> FALSE, doc |-> NoDoc]
EmptyFile == [state |-> "empty", bom |-> FALSE, doc |-> NoDoc]

\* A vault written earlier, found at the path
OldVault ==
    [state |-> "file", bom |-> TRUE,
     doc |-> [Network |-> "solana", Address |-> "old", QR |-> "qr-old",
              Salt |-> EncodeToString(Bytes(saltLen, "r1")),
              Nonce |-> EncodeToString(Bytes(nonceLen, "r1")),
              CipherText |->
                 EncodeToString(
                    Seal(DeriveKey("old", Bytes(saltLen, "r1")),
                         Bytes(nonceLen, "r1"),
                         MarshalWallet([PrivateKey |-> Bytes(privateKeyLen, "k0"),
                                        CreatedAt |-> <<"2", "0", "2", "5">>])))]]

Passwords == {"", "pw1", "pw2"}

\* The secrets handed to EncryptWallet
Wallets ==
    [PrivateKey : {Bytes(privateKeyLen, "k1"), Bytes(privateKeyLen, "k2")},
     CreatedAt : {<< >>, <<"2", "0", "2", "6">>}]

\* Mutant of StripBOM: the marker is left in front of the JSON text
StripBOMNever(d) == d

\* Skip UTF-8 BOM if present
StripBOM(d) == [d EXCEPT !.bom = FALSE]

\* json.Unmarshal(plaintext, &walletData): a JSON text of the right shape is
\* decoded; a text that is not JSON is refused before anything is decoded; a
\* JSON text with a field of another type is decoded as far as it fits (the
\* privateKey is) and the type error is returned
UnmarshalWallet(plaintext) ==
    IF plaintext.kind = "json"
    THEN [err |-> NoErr, decoded |-> TRUE, walletData |-> plaintext.body[1]]
    ELSE IF plaintext.kind = "json-mistyped"
    THEN [err |-> "failed to unmarshal wallet data", decoded |-> TRUE,
          walletData |-> plaintext.body[1]]
    ELSE [err |-> "failed to unmarshal wallet data", decoded |-> FALSE,
          walletData |-> NoWallet]

\* The buffers a call leaves behind: what each held, whether it was overwritten
\* with zeros before the return, and whether it is the result handed to the
\* caller.  defer clear(plaintext) wipes the decrypted bytes; the privateKey
\* that json.Unmarshal decoded is a buffer of its own
PlaintextBuffer == [what |-> "plaintext", zeroed |-> TRUE, result |-> FALSE]
KeyBuffer(handed) == [what |-> "privateKey", zeroed |-> FALSE, result |-> handed]

DecryptFailure(msg) ==
    [outcome |-> "return", err |-> msg, cwtFile |-> NoDoc, walletData |-> NoWallet,
     buffers |-> {}]

\* DecryptWallet(filePath, password) on the file d
DecryptWallet(d, password) ==
    IF d.state = "absent" THEN DecryptFailure("file does not exist")
    ELSE IF d.state = "empty" THEN DecryptFailure("file is empty")
    ELSE
    LET data == StripBOM(d)
        cwtFile == data.doc
        salt == DecodeString(cwtFile.Salt)
        nonce == DecodeString(cwtFile.Nonce)
        ciphertext == DecodeString(cwtFile.CipherText)
        key == DeriveKey(password, salt.bytes)
        opened == Open(key, nonce.bytes, ciphertext.bytes)
    IN IF data.bom THEN DecryptFailure("failed to unmarshal cwt file")
       ELSE IF salt.err # NoErr THEN DecryptFailure("failed to decode salt")
       ELSE IF nonce.err # NoErr THEN DecryptFailure("failed to decode nonce")
       ELSE IF ciphertext.err # NoErr THEN DecryptFailure("failed to decode ciphertext")
       ELSE IF NewCipherErr(key) # NoErr THEN DecryptFailure(NewCipherErr(key))
       ELSE IF opened.outcome = "panic"
            THEN [outcome |-> "panic",
                  err |-> "crypto/cipher: incorrect nonce length given to GCM",
                  cwtFile |-> NoDoc, walletData |-> NoWallet, buffers |-> {}]
       ELSE IF opened.outcome = "error" THEN DecryptFailure("invalid password")
       ELSE IF UnmarshalWallet(opened.plaintext).err # NoErr
            THEN [DecryptFailure(UnmarshalWallet(opened.plaintext).err)
                  EXCEPT !.buffers =
                     {PlaintextBuffer}
                     \cup (IF UnmarshalWallet(opened.plaintext).decoded
                           THEN {KeyBuffer(FALSE)} ELSE {})]
       ELSE [outcome |-> "return", err |-> NoErr, cwtFile |-> cwtFile,
             walletData |-> UnmarshalWallet(opened.plaintext).walletData,
             buffers |-> {PlaintextBuffer, KeyBuffer(TRUE)}]

\* The file EncryptWallet writes for a salt and a nonce
SealedVault(in, salt, nonce) ==
    [state |-> "file", bom |-> TRUE,
     doc |-> [Network |-> in.network, Address |-> in.address, QR |-> in.qr,
              Salt |-> EncodeToString(salt),
              Nonce |-> EncodeToString(nonce),
              CipherText |->
                 EncodeToString(Seal(DeriveKey(in.password, salt), nonce,
                                     MarshalWallet(in.wallet)))]]

NoTamper == [field |-> "none", how |-> "none"]

NoDecrypt == [outcome |-> "none", err |-> NoErr, cwtFile |-> NoDoc,
              walletData |-> NoWallet, buffers |-> {}]

InitVault ==
    /\ InitPay
    /\ InitIdle
    /\ InitReconIdle
    /\ InitLedgerIdle
    /\ InitCodecIdle
    /\ disk \in {AbsentFile, EmptyFile, OldVault}
    /\ vaultIn \in [suffixOK : BOOLEAN, network : {"solana"}, address : {"addr1"},
                    qr : {"qr1"}, wallet : Wallets, password : Passwords]
    /\ vaultOut = [enc |-> "none", tamper |-> NoTamper, password |-> "",
                   dec |-> NoDecrypt]
    /\ vpc = "start"

\* EncryptWallet(filePath, network, address, qrCode, walletData, password)
EncryptWallet ==
    /\ vpc = "start"
    /\ IF ~vaultIn.suffixOK
       THEN /\ vaultOut' = [vaultOut EXCEPT !.enc = "file must have .cwt extension"]
            /\ disk' = disk
       ELSE IF disk.state = "file"
       THEN /\ vaultOut' = [vaultOut EXCEPT !.enc = "file is not empty"]
            /\ disk' = disk
       ELSE \E salt \in RandomBytes(saltLen), nonce \in RandomBytes(nonceLen),
               written \in BOOLEAN :
               IF NewCipherErr(DeriveKey(vaultIn.password, salt)) # NoErr
               THEN /\ vaultOut' = [vaultOut EXCEPT !.enc = "failed to create cipher"]
                    /\ disk' = disk
               ELSE IF written
               THEN /\ vaultOut' = [vaultOut EXCEPT !.enc = NoErr]
                    /\ disk' = SealedVault(vaultIn, salt, nonce)
               ELSE /\ vaultOut' = [vaultOut EXCEPT !.enc = "failed to write file"]
                    /\ disk' = disk
    /\ vpc' = "encrypted"
    /\ UNCHANGED vaultIn
    /\ UNCHANGED nonVaultVars

\* The text of a field after it was altered outside the program
TamperedText(t, how) ==
    IF how = "encoding" THEN NotBase64
    ELSE IF how = "bytes" THEN EncodeToString(Bytes(t.bytes.len, "altered"))
    ELSE EncodeToString([t.bytes EXCEPT !.len = @ - 1])

\* The vault file is altered between the write and the read: one of salt,
\* nonce and cipherText gets other bytes, another length or a text that is
\* not base64
Tamper ==
    /\ vpc = "encrypted"
    /\ disk.state = "file"
    /\ \E field \in {"Salt", "Nonce", "CipherText"},
          how \in {"bytes", "length", "encoding"} :
          /\ disk' = [disk EXCEPT !.doc[field] = TamperedText(@, how)]
          /\ vaultOut' = [vaultOut EXCEPT !.tamper = [field |-> field, how |-> how]]
    /\ vpc' = "tampered"
    /\ UNCHANGED vaultIn
    /\ UNCHANGED nonVaultVars

\* DecryptWallet(filePath, password) with any password
CallDecryptWallet ==
    /\ vpc \in {"start", "encrypted", "tampered"}
    /\ \E password \in Passwords :
          vaultOut' = [vaultOut EXCEPT !.password = password,
                                       !.dec = DecryptWallet(disk, password)]
    /\ vpc' = "done"
    /\ UNCHANGED <<disk, vaultIn>>
    /\ UNCHANGED nonVaultVars

NextVault == EncryptWallet \/ Tamper \/ CallDecryptWallet

SpecVault == InitVault /\ [][NextVault]_vars

(***************************************************************************)
(* Single calls followed from entry to return: DecryptWallet, PayUSDC,       *)
(* PaySOL and GenerateWallet on the file at the path, with the balances the  *)
(* chain reports and the buffers the call leaves behind.                     *)
(***************************************************************************)
\* wallet.PublicKey().String(): the address that belongs to a private key
AddressOf(privateKey) == <<"addr", privateKey.body[1]>>

\* An address that solana.PublicKeyFromBase58 refuses
BadAddress == <<"junk", "none">>

\* solana.PublicKeyFromBase58(address) returns no error
IsBase58(address) == address[1] = "addr"

NoAddress == <<"none", "none">>

\* Mutant of ReadWalletAddress: the sealed fields are decoded before the
\* address is returned
ReadAddressDecodingSealed(d) ==
    IF d.state = "absent" THEN [err |-> "file does not exist", address |-> NoAddress]
    ELSE IF d.state = "empty" THEN [err |-> "file is empty", address |-> NoAddress]
    ELSE LET data == StripBOM(d)
         IN IF data.bom
            THEN [err |-> "failed to unmarshal cwt file", address |-> NoAddress]
            ELSE IF DecodeString(data.doc.Salt).err # NoErr
            THEN [err |-> "failed to decode salt", address |-> NoAddress]
            ELSE [err |-> NoErr, address |-> data.doc.Address]

\* ReadWalletAddress(filePath) on the file d: only the envelope is read
ReadWalletAddress(d) ==
    IF d.state = "absent" THEN [err |-> "file does not exist", address |-> NoAddress]
    ELSE IF d.state = "empty" THEN [err |-> "file is empty", address |-> NoAddress]
    ELSE LET data == StripBOM(d)
         IN IF data.bom
            THEN [err |-> "failed to unmarshal cwt file", address |-> NoAddress]
            ELSE [err |-> NoErr, address |-> data.doc.Address]

SOLToLamports(sol) == parseWithDecimals(sol, SOLDecimals)
USDCToMicro(usdc) == parseWithDecimals(usdc, USDCDecimals)

CallKey == Bytes(privateKeyLen, "k1")
OtherKey == Bytes(privateKeyLen, "k2")

\* What the vault at the path was made from
CallVaultIn ==
    [network |-> "solana", address |-> AddressOf(CallKey), qr |-> "qr1",
     wallet |-> [PrivateKey |-> CallKey, CreatedAt |-> <<"2", "0", "2", "6">>],
     password |-> "pw1"]

CallVault(in) == SealedVault(in, Bytes(saltLen, "r1"), Bytes(nonceLen, "r1"))

\* A vault sealed elsewhere, whose plaintext is not the JSON EncryptWallet writes
ForeignVault(kind) ==
    [CallVault(CallVaultIn) EXCEPT
        !.doc.CipherText =
           EncodeToString(
              Seal(DeriveKey(CallVaultIn.password, Bytes(saltLen, "r1")),
                   Bytes(nonceLen, "r1"),
                   [MarshalWallet(CallVaultIn.wallet) EXCEPT !.kind = kind]))]

\* The files a call may find at the path
CallVaults ==
    {[state |-> "absent", bom |-> FALSE, doc |-> NoDoc],
     [state |-> "empty", bom |-> FALSE, doc |-> NoDoc],
     CallVault(CallVaultIn),
     [CallVault(CallVaultIn) EXCEPT !.bom = FALSE],
     CallVault([CallVaultIn EXCEPT !.wallet.PrivateKey = Bytes(48, "k1")]),
     CallVault([CallVaultIn EXCEPT !.address = AddressOf(OtherKey)]),
     CallVault([CallVaultIn EXCEPT !.address = BadAddress]),
     ForeignVault("json-mistyped"),
     ForeignVault("text"),
     [CallVault(CallVaultIn) EXCEPT
         !.doc.Nonce = EncodeToString(Bytes(nonceLen - 1, "r1"))]}

\* Amounts asked for: small ones, the largest the width holds, the largest
\* less the fee and a little more, one that is not a number
AmountTexts ==
    {<<"0", ".", "0", "0", "0", "0", "0", "5">>,
     <<"5">>,
     FormatUint(0) \o <<".">> \o FormatUint(MaxUint),
     FormatUint(0) \o <<".">> \o FormatUint(MaxUint - solFeeLamports),
     FormatUint(0) \o <<".">> \o FormatUint(MaxUint - solFeeLamports + 1),
     <<"x">>}

SolBalances == {0, solFeeLamports - 1, solFeeLamports, 5005000, MaxUint}
UsdcBalances == {0, 4, 5, 5000000, MaxUint}

NoCall == [outcome |-> "none", err |-> NoErr, submitted |-> FALSE,
           address |-> NoAddress, buffers |-> {}]

CallDefaults ==
    [fn |-> "none", password |-> "pw1", suffixOK |-> TRUE, toOK |-> TRUE,
     mins |-> 1, amount |-> << >>, usdcBal |-> 0, solBal |-> 0, balanceOK |-> TRUE]

InitCalls ==
    /\ InitPay
    /\ InitReconIdle
    /\ InitLedgerIdle
    /\ InitCodecIdle
    /\ InitGenIdle
    /\ vaultIn = [kind |-> "none"]
    /\ vaultOut = [kind |-> "none"]
    /\ vpc = "idle"
    /\ disk \in CallVaults
    /\ \/ \E fn \in PayFns, pw \in {"pw1", "pw2"}, ok \in BOOLEAN,
             a \in AmountTexts, sb \in SolBalances, ub \in UsdcBalances :
             /\ fn = "PaySOL" => ub = 0
             /\ callIn = [CallDefaults EXCEPT !.fn = fn, !.password = pw,
                             !.balanceOK = ok, !.amount = a,
                             !.solBal = sb, !.usdcBal = ub]
       \/ \E fn \in PayFns : callIn = [CallDefaults EXCEPT !.fn = fn, !.toOK = FALSE]
       \/ \E pw \in {"pw1", "pw2"} :
             callIn = [CallDefaults EXCEPT !.fn = "DecryptWallet", !.password = pw]
       \/ \E ok \in BOOLEAN :
             callIn = [CallDefaults EXCEPT !.fn = "GenerateWallet", !.suffixOK = ok]
    /\ callOut = NoCall
    /\ kpc = "start"

\* defer clear(walletData.PrivateKey): the buffer DecryptWallet handed over
\* is wiped when the Pay call returns
ClearResult(buffers) ==
    {IF b.result THEN [b EXCEPT !.zeroed = TRUE, !.result = FALSE] ELSE b :
        b \in buffers}

\* What the collaborators answer during this Pay call, from the file and the
\* chain: the step of the body that fails, the balances and the parsed amount
CallEnv ==
    LET read == ReadWalletAddress(disk)
        dec == DecryptWallet(disk, callIn.password)
        amt == IF callIn.fn = "PayUSDC" THEN USDCToMicro(callIn.amount)
               ELSE SOLToLamports(callIn.amount)
    IN [failAt |->
           IF read.err # NoErr THEN "read"
           ELSE IF dec.err # NoErr THEN "decrypt"
           ELSE IF dec.walletData.PrivateKey.len # privateKeyLen THEN "keylen"
           ELSE IF ~IsBase58(read.address) THEN "pubkey"
           ELSE IF AddressOf(dec.walletData.PrivateKey) # read.address THEN "keymatch"
           ELSE IF ~callIn.balanceOK THEN "balance"
           ELSE "none",
        usdcBal |-> callIn.usdcBal,
        solBal |-> callIn.solBal,
        amount |-> IF amt.err # NoErr THEN ParseErr ELSE amt.val]

\* PayUSDC / PaySOL from entry to return
CallPay ==
    /\ kpc = "start"
    /\ callIn.fn \in PayFns
    /\ CanLock
    /\ LET read == ReadWalletAddress(disk)
           dec == DecryptWallet(disk, callIn.password)
           left == IF read.err # NoErr THEN {} ELSE ClearResult(dec.buffers)
       IN IF ~callIn.toOK
          THEN /\ callOut' = [NoCall EXCEPT !.outcome = "return",
                                            !.err = "invalid Solana address"]
               /\ lastPayTime' = lastPayTime
          ELSE IF CooldownActive(lastPayTime, now, callIn.mins)
          THEN /\ callOut' = [NoCall EXCEPT !.outcome = "return",
                                            !.err = "cooldown active"]
               /\ lastPayTime' = lastPayTime
          ELSE IF read.err = NoErr /\ dec.outcome = "panic"
          THEN /\ callOut' = [NoCall EXCEPT !.outcome = "panic", !.err = dec.err,
                                            !.buffers = left]
               /\ lastPayTime' = lastPayTime
          ELSE IF PayBody(callIn.fn, CallEnv) # "pass"
          THEN /\ callOut' = [NoCall EXCEPT !.outcome = "return",
                                            !.err = PayBody(callIn.fn, CallEnv),
                                            !.buffers = left]
               /\ lastPayTime' = lastPayTime
          ELSE \E sent \in BOOLEAN :
                  /\ callOut' = [NoCall EXCEPT
                                    !.outcome = "return",
                                    !.err = IF sent THEN NoErr
                                            ELSE "failed to send transaction",
                                    !.submitted = TRUE,
                                    !.buffers = left]
                  /\ lastPayTime' = IF sent THEN now ELSE lastPayTime
    /\ kpc' = "done"
    /\ UNCHANGED <<callIn, disk>>
    /\ UNCHANGED <<now, ticks, payMutex, pc, loc, calls>>
    /\ UNCHANGED <<reconVars, ledgerVars, codecVars, genVars>>
    /\ UNCHANGED <<vaultIn, vaultOut, vpc>>

\* DecryptWallet(filePath, password) called on its own
CallDecrypt ==
    /\ kpc = "start"
    /\ callIn.fn = "DecryptWallet"
    /\ LET dec == DecryptWallet(disk, callIn.password)
       IN callOut' = [NoCall EXCEPT !.outcome = dec.outcome, !.err = dec.err,
                                    !.buffers = dec.buffers]
    /\ kpc' = "done"
    /\ UNCHANGED <<callIn, disk>>
    /\ UNCHANGED <<payVars, reconVars, ledgerVars, codecVars, genVars>>
    /\ UNCHANGED <<vaultIn, vaultOut, vpc>>

\* wallet := solana.NewWallet(); defer clear(wallet.PrivateKey)
KeypairBuffer == [what |-> "keypair", zeroed |-> TRUE, result |-> FALSE]

\* GenerateWallet(filePath, password) from entry to return, with nothing else
\* touching the path meanwhile
CallGenerateWallet ==
    /\ kpc = "start"
    /\ callIn.fn = "GenerateWallet"
    /\ IF ~callIn.suffixOK
       THEN /\ callOut' = [NoCall EXCEPT !.outcome = "return",
                                         !.err = "file must have .cwt extension"]
            /\ disk' = disk
       ELSE IF disk.state = "file"
       THEN /\ callOut' = [NoCall EXCEPT !.outcome = "return",
                                         !.err = "file is not empty"]
            /\ disk' = disk
       ELSE \E key \in {CallKey, OtherKey}, qrOK \in BOOLEAN, written \in BOOLEAN,
               salt \in RandomBytes(saltLen), nonce \in RandomBytes(nonceLen) :
               IF ~qrOK
               THEN /\ callOut' = [NoCall EXCEPT !.outcome = "return",
                                                 !.err = "failed to generate QR code",
                                                 !.buffers = {KeypairBuffer}]
                    /\ disk' = disk
               ELSE IF ~written
               THEN /\ callOut' = [NoCall EXCEPT !.outcome = "return",
                                                 !.err = "failed to encrypt wallet",
                                                 !.buffers = {KeypairBuffer,
                                                              PlaintextBuffer}]
                    /\ disk' = disk
               ELSE /\ callOut' = [NoCall EXCEPT !.outcome = "return",
                                                 !.address = AddressOf(key),
                                                 !.buffers = {KeypairBuffer,
                                                              PlaintextBuffer}]
                    /\ disk' = SealedVault(
                                  [network |-> "solana", address |-> AddressOf(key),
                                   qr |-> "qr1",
                                   wallet |-> [PrivateKey |-> key,
                                               CreatedAt |-> <<"2", "0", "2", "6">>],
                                   password |-> callIn.password],
                                  salt, nonce)
    /\ kpc' = "done"
    /\ UNCHANGED callIn
    /\ UNCHANGED <<payVars, reconVars, ledgerVars, codecVars, genVars>>
    /\ UNCHANGED <<vaultIn, vaultOut, vpc>>

NextCalls == CallPay \/ CallDecrypt \/ CallGenerateWallet

SpecCalls == InitCalls /\ [][NextCalls]_vars

(***************************************************************************)
(* Wallet generation (solana/generate.go and EncryptWallet) by goroutines    *)
(* that share one path, the one-off re-encryption tool                       *)
(* (cmd/reencrypt_cipher), and ReadWalletAddress on the file they leave.     *)
(*                                                                           *)
(* rand.Reader and solana.NewWallet deliver values never delivered before:   *)
(* the k-th value drawn is numbered k.  The values written into the          *)
(* re-encryption tool are numbered 0.                                        *)
(***************************************************************************)
\* An error value: its dynamic type, its text, and the sentinel errors.Is
\* finds inside it
GoError(type, msg, wraps) == [type |-> type, msg |-> msg, wraps |-> wraps]

NilError == GoError("nil", "", "none")

\* &FileExistsError{Message: "file is not empty"}
FileExistsError == GoError("*FileExistsError", "file is not empty", "none")

\* fmt.Errorf("file is not empty: %w", os.ErrExist)
EncryptExistsError == GoError("*fmt.wrapError", "file is not empty", "os.ErrExist")

\* fmt.Errorf("failed to encrypt wallet: %w", err)
WrapEncryptError(e) == GoError("*fmt.wrapError", "failed to encrypt wallet", e.wraps)

\* IsFileExistsError: _, ok := err.(*FileExistsError)
IsFileExistsError(e) == e.type = "*FileExistsError"

\* Mutant of SizeAboveZero: no file counts as non-empty
SizeNeverAboveZero(d) == FALSE

\* os.Stat(filePath) returns no error and fileInfo.Size() > 0
SizeAboveZero(d) == d.state = "file"

GenFns == {"GenerateWallet", "EncryptWallet"}

NoKey == Bytes(0, 0)

NoGen == [fn |-> "none", suffixOK |-> TRUE, alone |-> TRUE, before |-> "none",
          key |-> NoKey, address |-> NoAddress, content |-> "none",
          err |-> NilError, wrote |-> FALSE, read |-> "none", readOf |-> "none"]

\* The password of every call and the secret a direct EncryptWallet is given
GenPassword == "pw1"
GivenKey == Bytes(privateKeyLen, 0 - 1)

\* A vault written before the run
FoundVault ==
    SealedVault([network |-> "solana", address |-> AddressOf(Bytes(privateKeyLen, 0 - 2)),
                 qr |-> "qr0",
                 wallet |-> [PrivateKey |-> Bytes(privateKeyLen, 0 - 2),
                             CreatedAt |-> <<"2", "0", "2", "5">>],
                 password |-> "pw0"],
                Bytes(saltLen, 0 - 2), Bytes(nonceLen, 0 - 3))

\* What is written into cmd/reencrypt_cipher: the password, the salt, the
\* nonce and the cipherText of the old-format vault.  The cipherText is taken
\* to be what the old version sealed under them (the tool exits otherwise)
ToolPassword == "dev"
ToolSalt == Bytes(saltLen, 0)
ToolNonce == Bytes(nonceLen, 0)
OldPlaintext ==
    [len |-> 64 + 4, kind |-> "json-old",
     body |-> <<[PrivateKey |-> [len |-> 64, kind |-> "hex", body |-> <<0>>],
                 CreatedAt |-> <<"2", "0", "2", "5">>]>>]
ToolCipherText == Seal(DeriveKey(ToolPassword, ToolSalt), ToolNonce, OldPlaintext)

Sealing(by, salt, key, nonce, plaintext) ==
    [by |-> by, salt |-> salt, key |-> key, nonce |-> nonce, plaintext |-> plaintext]

\* The encryption that made the cipherText the tool holds
OldSealing ==
    Sealing("old version", ToolSalt, DeriveKey(ToolPassword, ToolSalt), ToolNonce,
            OldPlaintext)

InitGen ==
    /\ InitPay
    /\ InitReconIdle
    /\ InitLedgerIdle
    /\ InitCodecIdle
    /\ InitCallIdle
    /\ vaultIn = [kind |-> "none"]
    /\ vaultOut = [kind |-> "none"]
    /\ vpc = "idle"
    /\ disk \in {[state |-> "absent", bom |-> FALSE, doc |-> NoDoc],
                 [state |-> "empty", bom |-> FALSE, doc |-> NoDoc],
                 FoundVault}
    /\ gpc = [g \in Goroutines |-> "idle"]
    /\ \E ok \in BOOLEAN : gloc = [g \in Goroutines |-> [NoGen EXCEPT !.suffixOK = ok]]
    /\ sealLog = <<OldSealing>>
    /\ drawn = 0

Running(g) == gpc[g] \notin {"idle", "returned", "read"}

\* return "", err
GenFail(g, e) ==
    /\ gpc' = [gpc EXCEPT ![g] = "returned"]
    /\ gloc' = [gloc EXCEPT ![g].err = e]

\* Entry of GenerateWallet or of EncryptWallet, and the check of the
\* extension.  A call that starts while another runs is not alone, nor is
\* the other
GenBegin(g) ==
    /\ gpc[g] = "idle"
    /\ \E fn \in GenFns :
          LET others == {h \in Goroutines \ {g} : Running(h)}
              mine == [gloc[g] EXCEPT !.fn = fn, !.alone = (others = {}),
                                      !.before = disk,
                                      !.key = IF fn = "EncryptWallet"
                                              THEN GivenKey ELSE NoKey,
                                      !.address = IF fn = "EncryptWallet"
                                                  THEN AddressOf(GivenKey)
                                                  ELSE NoAddress]
              marked == [h \in Goroutines |->
                            IF h = g THEN mine
                            ELSE IF h \in others THEN [gloc[h] EXCEPT !.alone = FALSE]
                            ELSE gloc[h]]
          IN IF ~gloc[g].suffixOK
             THEN /\ gpc' = [gpc EXCEPT ![g] = "returned"]
                  /\ gloc' = [marked EXCEPT
                                 ![g].err = GoError("*errors.errorString",
                                                    "file must have .cwt extension",
                                                    "none")]
             ELSE /\ gpc' = [gpc EXCEPT ![g] = IF fn = "GenerateWallet"
                                               THEN "stat" ELSE "encstat"]
                  /\ gloc' = marked
    /\ UNCHANGED <<disk, sealLog, drawn>>
    /\ UNCHANGED nonGenVars
    /\ UNCHANGED <<vaultIn, vaultOut, vpc>>

\* GenerateWallet: Check file existence
GenStat(g) ==
    /\ gpc[g] = "stat"
    /\ IF SizeAboveZero(disk)
       THEN GenFail(g, FileExistsError)
       ELSE /\ gpc' = [gpc EXCEPT ![g] = "keygen"]
            /\ gloc' = gloc
    /\ UNCHANGED <<disk, sealLog, drawn>>
    /\ UNCHANGED nonGenVars
    /\ UNCHANGED <<vaultIn, vaultOut, vpc>>

\* wallet := solana.NewWallet(); address = wallet.PublicKey().String();
\* generateQRCode(address)
GenKeypair(g) ==
    /\ gpc[g] = "keygen"
    /\ drawn' = drawn + 1
    /\ \E qrOK \in BOOLEAN :
          IF qrOK
          THEN /\ gpc' = [gpc EXCEPT ![g] = "encstat"]
               /\ gloc' = [gloc EXCEPT
                              ![g].key = Bytes(privateKeyLen, drawn + 1),
                              ![g].address = AddressOf(Bytes(privateKeyLen, drawn + 1))]
          ELSE GenFail(g, GoError("*fmt.wrapError", "failed to generate QR code",
                                  "none"))
    /\ UNCHANGED <<disk, sealLog>>
    /\ UNCHANGED nonGenVars
    /\ UNCHANGED <<vaultIn, vaultOut, vpc>>

\* EncryptWallet: Check if file exists
EncStat(g) ==
    /\ gpc[g] = "encstat"
    /\ IF SizeAboveZero(disk)
       THEN GenFail(g, IF gloc[g].fn = "GenerateWallet"
                       THEN WrapEncryptError(EncryptExistsError)
                       ELSE EncryptExistsError)
       ELSE /\ gpc' = [gpc EXCEPT ![g] = "seal"]
            /\ gloc' = gloc
    /\ UNCHANGED <<disk, sealLog, drawn>>
    /\ UNCHANGED nonGenVars
    /\ UNCHANGED <<vaultIn, vaultOut, vpc>>

\* EncryptWallet: salt and nonce from rand.Reader, scrypt.Key, json.Marshal,
\* aesGCM.Seal, and the file structure with the three fields encoded
EncSeal(g) ==
    /\ gpc[g] = "seal"
    /\ LET salt == Bytes(saltLen, drawn + 1)
           nonce == Bytes(nonceLen, drawn + 2)
           in == [network |-> "solana", address |-> gloc[g].address, qr |-> "qr1",
                  wallet |-> [PrivateKey |-> gloc[g].key,
                              CreatedAt |-> <<"2", "0", "2", "6">>],
                  password |-> GenPassword]
       IN /\ drawn' = drawn + 2
          /\ sealLog' = Append(sealLog,
                               Sealing("EncryptWallet", salt,
                                       DeriveKey(GenPassword, salt), nonce,
                                       MarshalWallet(in.wallet)))
          /\ gloc' = [gloc EXCEPT ![g].content = SealedVault(in, salt, nonce)]
    /\ gpc' = [gpc EXCEPT ![g] = "write"]
    /\ UNCHANGED disk
    /\ UNCHANGED nonGenVars
    /\ UNCHANGED <<vaultIn, vaultOut, vpc>>

\* os.WriteFile(filePath, fileDataWithBOM, 0600) and the return
EncWrite(g) ==
    /\ gpc[g] = "write"
    /\ \E written \in BOOLEAN :
          IF written
          THEN /\ disk' = gloc[g].content
               /\ gloc' = [gloc EXCEPT ![g].wrote = TRUE]
               /\ gpc' = [gpc EXCEPT ![g] = "returned"]
          ELSE /\ disk' = disk
               /\ GenFail(g, IF gloc[g].fn = "GenerateWallet"
                             THEN WrapEncryptError(GoError("*fmt.wrapError",
                                                           "failed to write file",
                                                           "none"))
                             ELSE GoError("*fmt.wrapError", "failed to write file",
                                          "none"))
    /\ UNCHANGED <<sealLog, drawn>>
    /\ UNCHANGED nonGenVars
    /\ UNCHANGED <<vaultIn, vaultOut, vpc>>

\* ReadWalletAddress(filePath) by a goroutine whose call has returned
ReadAddressOnly(g) ==
    /\ gpc[g] = "returned"
    /\ gloc' = [gloc EXCEPT ![g].read = ReadWalletAddress(disk),
                            ![g].readOf = disk]
    /\ gpc' = [gpc EXCEPT ![g] = "read"]
    /\ UNCHANGED <<disk, sealLog, drawn>>
    /\ UNCHANGED nonGenVars
    /\ UNCHANGED <<vaultIn, vaultOut, vpc>>

\* Between the calls the file is saved again by a text editor without the
\* marker, or its sealed fields are replaced by a text that does not decode
EditFile ==
    /\ disk.state = "file"
    /\ \A g \in Goroutines : ~Running(g)
    /\ \/ /\ disk.bom
          /\ disk' = [disk EXCEPT !.bom = FALSE]
       \/ /\ disk.doc.Salt # NotBase64
          /\ disk' = [disk EXCEPT !.doc.Salt = NotBase64, !.doc.Nonce = NotBase64,
                                  !.doc.CipherText = NotBase64]
    /\ UNCHANGED <<gpc, gloc, sealLog, drawn>>
    /\ UNCHANGED nonGenVars
    /\ UNCHANGED <<vaultIn, vaultOut, vpc>>

\* cmd/reencrypt_cipher, main: the key from the password and the salt written
\* in, Open with the nonce written in, the seed taken from the old JSON, and
\* Seal of the new JSON with the same aesGCM and the same nonce
Reencrypt ==
    /\ \A i \in 1..Len(sealLog) : sealLog[i].by # "reencrypt_cipher"
    /\ LET key == DeriveKey(ToolPassword, ToolSalt)
           opened == Open(key, ToolNonce, ToolCipherText)
           newWallet == [PrivateKey |-> [len |-> 32, kind |-> "seed", body |-> <<0>>],
                         CreatedAt |-> opened.plaintext.body[1].CreatedAt]
       IN /\ opened.outcome = "ok"
          /\ sealLog' = Append(sealLog,
                               Sealing("reencrypt_cipher", ToolSalt, key, ToolNonce,
                                       MarshalWallet(newWallet)))
    /\ UNCHANGED <<disk, gpc, gloc, drawn>>
    /\ UNCHANGED nonGenVars
    /\ UNCHANGED <<vaultIn, vaultOut, vpc>>

NextGen ==
    \/ \E g \in Goroutines :
          \/ GenBegin(g)
          \/ GenStat(g)
          \/ GenKeypair(g)
          \/ EncStat(g)
          \/ EncSeal(g)
          \/ EncWrite(g)
          \/ ReadAddressOnly(g)
    \/ EditFile
    \/ Reencrypt

SpecGen == InitGen /\ [][NextGen]_vars

(***************************************************************************)
(* Pay Guard properties (checked under Spec).                              *)
(***************************************************************************)
Returning(g) == pc[g] = "unlock"
Rejected(g) == Returning(g) /\ loc[g].ret = "cooldown active"
PassedGuard(g) == pc[g] \in {"body", "submit", "stamp"}

\* C1: lastPayTime changes only in the step that follows an accepted
\* submission, taken by the goroutine that holds the lock; a call that returns
\* an error has written it zero times and leaves it as it found it; a call
\* that returns success has written it exactly once, before the unlock.
C1_TimestampOnlyOnAcceptance ==
    [][ /\ (lastPayTime' # lastPayTime =>
               \E g \in Goroutines :
                  /\ pc[g] = "stamp" /\ pc'[g] = "unlock"
                  /\ "submit" \in loc[g].reached
                  /\ payMutex /\ payMutex')
        /\ \A g \in Goroutines :
              (pc[g] # "unlock" /\ pc'[g] = "unlock") =>
                 IF loc'[g].ret = "ok"
                 THEN /\ pc[g] = "stamp"
                      /\ loc'[g].writes = 1
                      /\ lastPayTime' = now
                 ELSE /\ loc'[g].writes = 0
                      /\ lastPayTime' = lastPayTime
                      /\ lastPayTime' = loc'[g].observed ]_vars

\* Witness of C1: a submission failed after an earlier accepted transfer had
\* set the timestamp, and the timestamp is still the one the call found.
C1_Witness ==
    \E g \in Goroutines :
       /\ Returning(g)
       /\ loc[g].ret = "failed to send transaction"
       /\ ~IsZero(lastPayTime)
       /\ lastPayTime = loc[g].observed

\* C2 (as claimed): a call that checks the guard less than the cooldown after
\* the last accepted transfer of either currency is rejected with a remaining
\* wait in (0, cooldown] and touches neither the vault nor the chain; a call
\* that checks it later passes.
C2_RejectedWithPositiveRemaining ==
    \A g \in Goroutines :
       /\ Rejected(g) =>
             /\ loc[g].mins > 0
             /\ Since(loc[g].observed, loc[g].checkAt) < CooldownDuration(loc[g].mins)
             /\ 0 < loc[g].remaining
             /\ loc[g].remaining <= CooldownDuration(loc[g].mins)
             /\ loc[g].reached = {}
       /\ (PassedGuard(g) /\ loc[g].mins > 0 /\ ~IsZero(loc[g].observed)) =>
             Since(loc[g].observed, loc[g].checkAt) >= CooldownDuration(loc[g].mins)

\* C3: a call with cooldownMinutes = 0 is never rejected by the guard, and
\* neither is a call that finds the timestamp unset.
C3_ZeroCooldownNeverRejects ==
    \A g \in Goroutines :
       (pc[g] = "remaining" \/ Rejected(g)) =>
          (loc[g].mins > 0 /\ ~IsZero(loc[g].observed))

\* Witness of C3: a call with cooldown 0 passed the guard at the very instant
\* of the previous accepted transfer.
C3_Witness ==
    \E g \in Goroutines :
       /\ pc[g] = "body"
       /\ loc[g].mins = 0
       /\ ~IsZero(lastPayTime)
       /\ loc[g].checkAt = lastPayTime

\* C4: at most one call is between the cooldown check and its return, and the
\* lock is held exactly while one is.
C4_OneTransferInFlight ==
    /\ Cardinality({g \in Goroutines : InCritical(g)}) <= 1
    /\ payMutex <=> (\E g \in Goroutines : InCritical(g))

\* Witness of C4: one call is submitting while another waits for the lock.
C4_Witness ==
    \E g, h \in Goroutines :
       g # h /\ pc[g] = "submit" /\ pc[h] = "lock"

\* C5: the timestamp a caller checked is still the current one until the
\* caller has finished (nobody else wrote it in between), so a caller with a
\* cooldown submits only when the last accepted transfer is at least the
\* cooldown old, and two accepted transfers are at least the cooldown apart.
C5_CheckIsRaceFree ==
    \A g \in Goroutines :
       /\ PassedGuard(g) =>
             /\ loc[g].observed = lastPayTime
             /\ (loc[g].mins > 0 /\ ~IsZero(lastPayTime)) =>
                   Since(lastPayTime, loc[g].checkAt) >= CooldownDuration(loc[g].mins)
       /\ (Returning(g) /\ loc[g].ret = "ok" /\ loc[g].mins > 0
             /\ ~IsZero(loc[g].observed)) =>
             lastPayTime - loc[g].observed >= CooldownDuration(loc[g].mins)

\* Witness of C5: of two concurrent calls with a cooldown, one has had its
\* transfer accepted and stamped while the other still waits for the lock.
C5_Witness ==
    \E g, h \in Goroutines :
       /\ g # h
       /\ Returning(g) /\ loc[g].ret = "ok" /\ loc[g].mins > 0
       /\ pc[h] = "lock" /\ loc[h].mins > 0

(***************************************************************************)
(* Reconciler properties (checked under SpecRecon).  The quantities the    *)
(* claims speak of are defined here from the transaction alone.            *)
(***************************************************************************)
OwnerPositions == {i \in 1..Len(tx.accountKeys) : tx.accountKeys[i] = Owner}

OwnerListed == OwnerPositions # {}

OwnerFirst == 1 \in OwnerPositions

\* post - pre of the owner's account, 0 when the owner has no account in the list
RawNativeDelta ==
    IF OwnerListed /\ tx.hasMeta
    THEN LET i == CHOOSE k \in OwnerPositions : \A m \in OwnerPositions : k <= m
         IN tx.postBalances[i] - tx.preBalances[i]
    ELSE 0

OwnerTokenPositions(list) ==
    {i \in 1..Len(list) : list[i].mint = UsdcMint /\ list[i].owner = Owner}

RECURSIVE SumAt(_, _)
SumAt(list, positions) ==
    IF positions = {} THEN 0
    ELSE LET i == CHOOSE k \in positions : TRUE
         IN DigitsValue(list[i].amount) + SumAt(list, positions \ {i})

\* The owner's summed token delta for the tracked mint
TokenDelta ==
    IF tx.hasMeta
    THEN SumAt(tx.postTokenBalances, OwnerTokenPositions(tx.postTokenBalances))
         - SumAt(tx.preTokenBalances, OwnerTokenPositions(tx.preTokenBalances))
    ELSE 0

\* The native delta with the declared fee removed for the fee payer
IsolatedDelta == IF OwnerFirst /\ tx.hasMeta THEN RawNativeDelta + tx.fee ELSE RawNativeDelta

Magnitude(x) == IF x >= 0 THEN x ELSE 0 - x

Str_0_000005 == <<"0", ".", "0", "0", "0", "0", "0", "5">>
Str_0_000005000 == <<"0", ".", "0", "0", "0", "0", "0", "5", "0", "0", "0">>
Str_0_005000000 == <<"0", ".", "0", "0", "5", "0", "0", "0", "0", "0", "0">>
Str_5_000000 == <<"5", ".", "0", "0", "0", "0", "0", "0">>

IsTokenEntry(e) == e.Currency = "USDC"
IsNativeEntry(e) == e.Currency = "SOL"
Incoming(e) == e.Type = "DEBIT"
Outgoing(e) == e.Type = "CREDIT"

OneEntry == parsed /\ Len(entries) = 1

C7_TokenPriority ==
    parsed =>
       /\ TokenDelta # 0 =>
             /\ Len(entries) = 1
             /\ IsTokenEntry(entries[1])
             /\ entries[1].Amount = formatWithDecimals(Magnitude(TokenDelta), 6)
             /\ (TokenDelta = 5000000 => entries[1].Amount = Str_5_000000)
             /\ (TokenDelta > 0 <=> Incoming(entries[1]))
             /\ (TokenDelta < 0 <=> Outgoing(entries[1]))
       /\ \A i \in 1..Len(entries) :
             /\ IsNativeEntry(entries[i]) => TokenDelta = 0
             /\ IsTokenEntry(entries[i]) => TokenDelta # 0

\* Witness of C7: the owner's token delta is the sum over two token accounts
\* and the native balance moved too; a token entry was produced.
C7_Witness ==
    /\ OneEntry
    /\ TokenDelta = 0 - 10000000
    /\ RawNativeDelta > 0
    /\ IsTokenEntry(entries[1]) /\ Outgoing(entries[1])

\* C8 (as claimed): with zero token delta the amount of the entry is the raw
\* native delta with the fee removed when the owner is the first account
\* (-5,005,000 and fee 5,000 give 5,000,000 lamports, outgoing, feePaid
\* "0.000005"), and the raw delta with feePaid zero when it is not.
C8_FeeIsolationShortFee ==
    (OneEntry /\ IsNativeEntry(entries[1])) =>
       /\ OwnerFirst =>
             entries[1].Amount = LamportsToSOL(Magnitude(RawNativeDelta + tx.fee))
       /\ (OwnerFirst /\ RawNativeDelta = 0 - 5005000 /\ tx.fee = 5000) =>
             /\ entries[1].Amount = Str_0_005000000
             /\ Outgoing(entries[1])
             /\ entries[1].OurFeeSOL = Str_0_000005
       /\ ~OwnerFirst =>
             /\ entries[1].Amount = LamportsToSOL(Magnitude(RawNativeDelta))
             /\ entries[1].OurFeeSOL = ZeroString

\* C8 (amended): the same, with feePaid rendered with nine fractional digits:
\* -5,005,000 and fee 5,000 give 5,000,000 lamports ("0.005000000"),
\* outgoing, feePaid "0.000005000".
C8_FeeIsolation ==
    (OneEntry /\ IsNativeEntry(entries[1])) =>
       /\ OwnerFirst =>
             entries[1].Amount = LamportsToSOL(Magnitude(RawNativeDelta + tx.fee))
       /\ (OwnerFirst /\ RawNativeDelta = 0 - 5005000 /\ tx.fee = 5000) =>
             /\ entries[1].Amount = Str_0_005000000
             /\ Outgoing(entries[1])
             /\ entries[1].OurFeeSOL = Str_0_000005000
       /\ ~OwnerFirst =>
             /\ entries[1].Amount = LamportsToSOL(Magnitude(RawNativeDelta))
             /\ entries[1].OurFeeSOL = ZeroString

\* Witness of C8: the owner, first account, lost 5,005,000 lamports with a
\* declared fee of 5,000 and a native entry of 5,000,000 lamports was produced.
C8_Witness ==
    /\ OneEntry
    /\ TokenDelta = 0
    /\ OwnerFirst /\ RawNativeDelta = 0 - 5005000 /\ tx.fee = 5000
    /\ IsNativeEntry(entries[1])
    /\ entries[1].Amount = Str_0_005000000

\* C9: with zero token delta, a zero native transfer amount after fee
\* isolation gives no entry.
C9_NoEntryForZeroTransfer ==
    (parsed /\ TokenDelta = 0 /\ IsolatedDelta = 0) => entries = << >>

\* Witness of C9: the owner, first account, paid exactly the declared fee and
\* nothing was produced.
C9_Witness ==
    /\ parsed
    /\ TokenDelta = 0
    /\ OwnerFirst /\ tx.fee > 0 /\ RawNativeDelta = 0 - tx.fee
    /\ entries = << >>

OthersWhere(decreased) ==
    {i \in 1..Len(tx.accountKeys) :
        /\ tx.accountKeys[i] # Owner
        /\ IF decreased THEN tx.postBalances[i] < tx.preBalances[i]
           ELSE tx.postBalances[i] > tx.preBalances[i]}

\* The first account, in list order, other than the owner, whose balance
\* decreased (or increased); the empty string when there is none
FirstOther(decreased) ==
    IF OthersWhere(decreased) = {} THEN EmptyString
    ELSE tx.accountKeys[CHOOSE i \in OthersWhere(decreased) :
                           \A j \in OthersWhere(decreased) : i <= j]

\* C10: a native entry is incoming when the isolated delta is positive, from
\* the first other account whose balance decreased, and outgoing when it is
\* negative, to the first other account whose balance increased; feePaid is
\* the declared fee only for an outgoing entry of the first account, else zero.
C10_NativeDirectionCounterpartyFee ==
    (OneEntry /\ IsNativeEntry(entries[1])) =>
       /\ IsolatedDelta # 0
       /\ IsolatedDelta > 0 =>
             /\ Incoming(entries[1])
             /\ entries[1].To = Owner
             /\ entries[1].From = FirstOther(TRUE)
       /\ IsolatedDelta < 0 =>
             /\ Outgoing(entries[1])
             /\ entries[1].From = Owner
             /\ entries[1].To = FirstOther(FALSE)
       /\ entries[1].OurFeeSOL =
             IF Outgoing(entries[1]) /\ OwnerFirst
             THEN formatWithDecimals(tx.fee, 9) ELSE ZeroString

\* Witness of C10: an incoming native entry of an owner who is not the first
\* account, with two other accounts whose balance decreased.
C10_Witness ==
    /\ OneEntry
    /\ IsNativeEntry(entries[1]) /\ Incoming(entries[1])
    /\ ~OwnerFirst
    /\ Cardinality(OthersWhere(TRUE)) = 2
    /\ entries[1].From = tx.accountKeys[1]
    /\ entries[1].OurFeeSOL = ZeroString

(***************************************************************************)
(* Transaction history properties (checked under SpecLedger).              *)
(***************************************************************************)
Answered == hpc = "done" /\ resp.status = StatusOK

Listed(s) == InList(sigs.owner, s) \/ InList(sigs.ata, s)

EntriesOf(list, s) == {i \in 1..Len(list) : list[i].TxID = s}

DistinctTxIDs(list) ==
    \A i, j \in 1..Len(list) : i # j => list[i].TxID # list[j].TxID

\* C11: a signature is fetched and classified at most once, however often the
\* two lists name it, and exactly once when the whole history was read; it
\* contributes at most one entry, so neither the ledger being built nor the
\* ledger returned holds two entries with the same txId.
C11_DedupedBySignature ==
    /\ \A s \in SigNames :
          /\ fetches[s] <= 1
          /\ Cardinality(EntriesOf(transactions, s)) <= fetches[s]
          /\ (~Listed(s)) => fetches[s] = 0
    /\ DistinctTxIDs(transactions)
    /\ Answered =>
          /\ DistinctTxIDs(resp.Transactions)
          /\ \/ \A s \in SigNames : Listed(s) => fetches[s] = 1
             \/ /\ transactions = << >>
                /\ \A s \in SigNames : fetches[s] = 0

\* Witness of C11: a signature named by both lists gave one entry of a ledger
\* of several entries.
C11_Witness ==
    /\ Answered
    /\ \E s \in SigNames :
          /\ InList(sigs.owner, s) /\ InList(sigs.ata, s)
          /\ fetches[s] = 1
          /\ Cardinality(EntriesOf(resp.Transactions, s)) = 1
    /\ Len(resp.Transactions) >= 2

Descending(list) ==
    \A i \in 1..(Len(list) - 1) : list[i].Timestamp >= list[i + 1].Timestamp

\* C12: in the ledger returned, every entry has a timestamp greater than or
\* equal to that of the entry after it, in whatever order the candidate
\* transactions were classified.
C12_SortedByTimestampDescending ==
    Answered => Descending(resp.Transactions)

\* Witness of C12: three or more entries were returned, and the order in
\* which they were classified was not descending.
C12_Witness ==
    /\ Answered
    /\ Len(resp.Transactions) >= 3
    /\ ~Descending(transactions)
    /\ \E i, j \in 1..Len(resp.Transactions) :
          resp.Transactions[i].Timestamp # resp.Transactions[j].Timestamp

\* The amount of an entry in base units: its digits with the point taken out
RECURSIVE WithoutPoint(_)
WithoutPoint(a) ==
    IF Len(a) = 0 THEN << >>
    ELSE (IF Head(a) = "." THEN << >> ELSE <<Head(a)>>) \o WithoutPoint(Tail(a))

BaseUnits(a) == DigitsValue(WithoutPoint(a))

RECURSIVE ExactTotal(_, _, _)
ExactTotal(list, i, txType) ==
    IF i = 0 THEN 0
    ELSE ExactTotal(list, i - 1, txType)
         + (IF list[i].Currency = "USDC" /\ list[i].Type = txType
            THEN BaseUnits(list[i].Amount) ELSE 0)

\* C13 (as claimed): TotalIncomeUSDC is the exact sum, in token base units, of
\* the amounts of the returned entries that are token-currency and incoming,
\* TotalSpentUSDC the exact sum of those that are token-currency and outgoing;
\* filtered-out entries and native-coin entries add nothing.
C13_TotalsAreExactSums ==
    Answered =>
       /\ resp.TotalIncomeUSDC =
             formatWithDecimals(
                ExactTotal(resp.Transactions, Len(resp.Transactions), "DEBIT"), 6)
       /\ resp.TotalSpentUSDC =
             formatWithDecimals(
                ExactTotal(resp.Transactions, Len(resp.Transactions), "CREDIT"), 6)

\* A well-formed amount: digits, with at most one point
WellFormedAmount(a) ==
    LET parts == SplitOnPoint(TrimSpace(a))
    IN /\ Len(parts) \in {1, 2}
       /\ Len(parts[1]) > 0
       /\ \A k \in 1..Len(parts) : \A i \in 1..Len(parts[k]) : IsDigit(parts[k][i])

\* The number of millionths a well-formed amount stands for (no wrap-around)
ExactMillionths(a) ==
    LET parts == SplitOnPoint(TrimSpace(a))
    IN IF Len(parts) = 1 THEN DigitsValue(parts[1]) * 1000000
       ELSE DigitsValue(parts[1] \o PadOrTruncate(parts[2], 6))

BothAmountsGiven ==
    /\ ~IsNilAmount(req.MinAmount) /\ ~IsNilAmount(req.MaxAmount)
    /\ WellFormedAmount(req.MinAmount) /\ WellFormedAmount(req.MaxAmount)

MinExceedsMax ==
    BothAmountsGiven /\ ExactMillionths(req.MinAmount) > ExactMillionths(req.MaxAmount)

RejectedMinAboveMax ==
    /\ hpc = "done"
    /\ resp.status = StatusBadRequest
    /\ resp.error = "minAmount must be less than or equal to maxAmount"

\* C14 (as claimed): a request whose minAmount exceeds its maxAmount is answered
\* with a validation error before the vault is read, a signature fetched or a
\* transaction classified; a request with minAmount <= maxAmount is never
\* rejected for its amounts.
C14_MinAboveMaxRejectedFirst ==
    /\ (hpc # "validate" /\ MinExceedsMax) =>
          /\ hpc = "done"
          /\ resp.status = StatusBadRequest
          /\ transactions = << >>
          /\ \A s \in SigNames : fetches[s] = 0
    /\ RejectedMinAboveMax => MinExceedsMax

(***************************************************************************)
(* Amount codec properties (checked under SpecCodec).                      *)
(***************************************************************************)
RoundTripDone == cpc = "done" /\ codecIn.kind = "format"
ParseDone == cpc = "done" /\ codecIn.kind = "parse"

\* C15: for decimals 6 and 9 and every unsigned value v, 0 and the largest
\* one included, parsing the text that format wrote for v gives v back,
\* without error.
C15_RoundTrip ==
    RoundTripDone =>
       /\ codecOut.res.err = NoErr
       /\ codecOut.res.val = codecIn.value

\* Witness of C15: the largest value came back from its nine-decimal text, and
\* the text has the point and nine digits after it.
C15_Witness ==
    /\ RoundTripDone
    /\ codecIn.value = MaxUint
    /\ codecIn.decimals = 9
    /\ codecOut.text[Len(codecOut.text) - 9] = "."
    /\ codecOut.res.val = MaxUint

AllDigits(x) == \A i \in 1..Len(x) : IsDigit(x[i])

\* The number a digit string stands for; past the largest unsigned value the
\* count stops at a number that no unsigned value equals
RECURSIVE DigitsExact(_, _, _)
DigitsExact(x, i, acc) ==
    IF i > Len(x) \/ acc > MaxUint THEN acc
    ELSE DigitsExact(x, i + 1, acc * 10 + DigitValue(x[i]))

\* n times 10^d, stopping in the same way
RECURSIVE TimesPowerOfTen(_, _)
TimesPowerOfTen(n, d) ==
    IF d = 0 \/ n > MaxUint THEN n ELSE TimesPowerOfTen(n * 10, d - 1)

Trimmed == TrimSpace(codecIn.text)
Parts == SplitOnPoint(Trimmed)

PlainInteger == Len(Parts) = 1 /\ Len(Parts[1]) > 0 /\ AllDigits(Parts[1])
OnePoint == Len(Parts) = 2 /\ AllDigits(Parts[1]) /\ AllDigits(Parts[2])

\* What the text stands for in base units
ExactBaseUnits ==
    IF Len(Parts) = 1
    THEN TimesPowerOfTen(DigitsExact(Parts[1], 1, 0), codecIn.decimals)
    ELSE DigitsExact(Parts[1] \o PadOrTruncate(Parts[2], codecIn.decimals), 1, 0)

\* C16 (as claimed): with the surrounding white space ignored, a text of digits
\* without a point parses to the integer times 10^decimals, and a text of
\* digits with one point parses to the integer part followed by the fraction
\* padded with zeros or cut (not rounded) to `decimals` digits; a number that
\* no unsigned value holds is not returned as some other value.
C16_ParseScalesByText ==
    (ParseDone /\ (PlainInteger \/ OnePoint)) =>
       IF ExactBaseUnits <= MaxUint
       THEN /\ codecOut.res.err = NoErr
            /\ codecOut.res.val = ExactBaseUnits
       ELSE codecOut.res.err # NoErr

HasNonDigit == \E k \in 1..Len(Parts) : ~AllDigits(Parts[k])

\* C17 (as claimed): parse returns an error, and so no value, for every text
\* that is empty after trimming, has more than one point, or has a character
\* that is not a digit anywhere in its integer or fractional part, the
\* fractional positions beyond the scale included.
C17_MalformedTextFails ==
    (ParseDone /\ (Len(Trimmed) = 0 \/ Len(Parts) > 2 \/ HasNonDigit)) =>
       codecOut.res.err # NoErr

(***************************************************************************)
(* Vault properties (checked under SpecVault).                             *)
(***************************************************************************)
Decrypted == vpc = "done" /\ vaultOut.dec.outcome # "none"
WrittenIntact == vaultOut.enc = NoErr /\ vaultOut.tamper = NoTamper
Tampered == vaultOut.tamper # NoTamper

\* C18: decrypting the vault that encrypt wrote, with the same password,
\* succeeds and returns the secret that was encrypted (same privateKey bytes,
\* same createdAt) and the envelope fields network, address and qrImage as
\* they were given.
C18_VaultRoundTrip ==
    (Decrypted /\ WrittenIntact /\ vaultOut.password = vaultIn.password) =>
       /\ vaultOut.dec.outcome = "return"
       /\ vaultOut.dec.err = NoErr
       /\ vaultOut.dec.walletData.PrivateKey = vaultIn.wallet.PrivateKey
       /\ vaultOut.dec.walletData.CreatedAt = vaultIn.wallet.CreatedAt
       /\ vaultOut.dec.cwtFile.Network = vaultIn.network
       /\ vaultOut.dec.cwtFile.Address = vaultIn.address
       /\ vaultOut.dec.cwtFile.QR = vaultIn.qr

\* Witness of C18: a vault written with the marker in front, under a
\* non-empty password, was decrypted to the secret.
C18_Witness ==
    /\ Decrypted /\ WrittenIntact
    /\ disk.bom
    /\ vaultIn.password = "pw1" /\ vaultOut.password = "pw1"
    /\ vaultOut.dec.walletData = vaultIn.wallet
    /\ Len(vaultIn.wallet.CreatedAt) > 0

\* C19: decrypting the vault with a password other than the one it was
\* encrypted with returns the error "invalid password" and nothing of the
\* secret or the file.
C19_WrongPasswordFails ==
    (Decrypted /\ WrittenIntact /\ vaultOut.password # vaultIn.password) =>
       /\ vaultOut.dec.outcome = "return"
       /\ vaultOut.dec.err = "invalid password"
       /\ vaultOut.dec.walletData = NoWallet
       /\ vaultOut.dec.cwtFile = NoDoc

\* Witness of C19: a vault written under "pw1" was refused for "pw2".
C19_Witness ==
    /\ Decrypted /\ WrittenIntact
    /\ vaultIn.password = "pw1" /\ vaultOut.password = "pw2"
    /\ vaultOut.dec.err = "invalid password"

\* C20 (as claimed): when the salt, the nonce or the cipherText of a
\* well-formed vault file has been altered (other bytes, another length, or a
\* text that does not decode), decrypt returns the error it returns for a
\* wrong password, no other error, and it does not crash.
C20_TamperLooksLikeWrongPassword ==
    (Decrypted /\ Tampered) =>
       /\ vaultOut.dec.outcome = "return"
       /\ vaultOut.dec.err = "invalid password"

(***************************************************************************)
(* Amount codec: no wrapped value (checked under SpecCodec).               *)
(***************************************************************************)
DigitString == PlainInteger \/ OnePoint

\* C28 (as claimed): for every digit string, with or without a point, whose
\* exact value in base units exceeds the largest unsigned value, parse returns
\* an error; whenever parse returns a value, it is that exact value.
C28_ParseNeverWraps ==
    (ParseDone /\ DigitString) =>
       /\ (ExactBaseUnits > MaxUint => codecOut.res.err # NoErr)
       /\ (codecOut.res.err = NoErr => codecOut.res.val = ExactBaseUnits)

\* The same for texts with a point only: strconv.ParseUint refuses the
\* digits that do not fit
NoWrapWithPoint ==
    (ParseDone /\ OnePoint) =>
       /\ (ExactBaseUnits > MaxUint => codecOut.res.err # NoErr)
       /\ (codecOut.res.err = NoErr => codecOut.res.val = ExactBaseUnits)

\* A text with a point whose value does not fit was refused
RangeErrorReached ==
    ParseDone /\ OnePoint /\ ExactBaseUnits > MaxUint /\ codecOut.res.err # NoErr

(***************************************************************************)
(* Reconciler: native-coin entries and counterparties (checked under       *)
(* SpecRecon).                                                             *)
(***************************************************************************)
NativeCase == parsed /\ TokenDelta = 0 /\ OwnerListed /\ tx.decoded /\ tx.hasMeta

OneNativeEntry == Len(entries) = 1 /\ IsNativeEntry(entries[1])

\* C25 (as claimed): for every transaction with zero owner token delta in
\* which the owner is in the account list, a native-coin entry is produced
\* whenever the isolated amount (the raw native delta, with the declared fee
\* removed when the owner is the first account) is not zero; the owner being
\* first, the fee positive and the raw delta zero is one such case.
C25_EntryWheneverTransferNonZero ==
    (NativeCase /\ IsolatedDelta # 0) => OneNativeEntry

\* The same with the raw delta not zero: the entry is produced
EntryWhenRawDeltaNonZero ==
    (NativeCase /\ IsolatedDelta # 0 /\ RawNativeDelta # 0) => OneNativeEntry

\* The owner, first account, got back exactly the fee it paid: the raw delta
\* is zero, the isolated amount is the fee, and nothing was produced
FeeSizedReceiptDropped ==
    /\ NativeCase /\ OwnerFirst
    /\ tx.fee > 0 /\ RawNativeDelta = 0 /\ IsolatedDelta = tx.fee
    /\ entries = << >>

(***************************************************************************)
(* Reconciler: two runs on one transaction (checked under SpecRerun).      *)
(***************************************************************************)
BothRuns == parsed /\ rerun.done

\* Addresses other than the owner whose token delta has the sign opposite to
\* the owner's
OppositeHolders ==
    {h \in Keys \ {Owner} :
        LET d == SumAt(tx.postTokenBalances,
                       {i \in 1..Len(tx.postTokenBalances) :
                           /\ tx.postTokenBalances[i].mint = UsdcMint
                           /\ tx.postTokenBalances[i].owner = h})
                 - SumAt(tx.preTokenBalances,
                         {i \in 1..Len(tx.preTokenBalances) :
                             /\ tx.preTokenBalances[i].mint = UsdcMint
                             /\ tx.preTokenBalances[i].owner = h})
        IN IF TokenDelta > 0 THEN d < 0 ELSE d > 0}

Counterparty(list) ==
    IF Incoming(list[1]) THEN list[1].From ELSE list[1].To

\* C27 (as claimed): for a fixed transaction in which more than one address
\* other than the owner has a token delta of the sign opposite to the owner's,
\* every run of the classifier reports the same counterparty.
C27_CounterpartyReproducible ==
    (BothRuns /\ TokenDelta # 0 /\ Cardinality(OppositeHolders) > 1) =>
       Counterparty(entries) = Counterparty(rerun.entries)

\* With at most one such address the two runs agree in everything
RunsAgreeOnOneCandidate ==
    (BothRuns /\ Cardinality(OppositeHolders) <= 1) => entries = rerun.entries

\* With several such addresses the two runs differ in the counterparty only
RunsDifferInCounterpartyOnly ==
    (BothRuns /\ TokenDelta # 0) =>
       /\ Len(entries) = 1 /\ Len(rerun.entries) = 1
       /\ Counterparty(entries) \in OppositeHolders \cup {EmptyString}
       /\ [entries[1] EXCEPT !.From = Owner, !.To = Owner]
             = [rerun.entries[1] EXCEPT !.From = Owner, !.To = Owner]

(***************************************************************************)
(* History: the amount filter (checked under SpecLedger).  Amounts are     *)
(* compared here as digit strings, so that no width limits the comparison. *)
(***************************************************************************)
RECURSIVE StripZeros(_)
StripZeros(x) ==
    IF Len(x) > 0 /\ Head(x) = "0" THEN StripZeros(Tail(x)) ELSE x

\* The base units of a well-formed amount at scale d, as digits without
\* leading zeros
UnitsAt(a, d) ==
    LET parts == SplitOnPoint(TrimSpace(a))
    IN StripZeros(parts[1] \o PadOrTruncate(IF Len(parts) = 2 THEN parts[2] ELSE << >>, d))

RECURSIVE DigitsLess(_, _, _)
DigitsLess(x, y, i) ==
    IF i > Len(x) THEN FALSE
    ELSE IF DigitValue(x[i]) # DigitValue(y[i]) THEN DigitValue(x[i]) < DigitValue(y[i])
    ELSE DigitsLess(x, y, i + 1)

\* x <= y for two numbers written without leading zeros
UnitsLessEq(x, y) ==
    IF Len(x) # Len(y) THEN Len(x) < Len(y) ELSE ~DigitsLess(y, x, 1)

ScaleOf(e) == IF e.Currency = "SOL" THEN 9 ELSE 6

\* min <= amount <= max as base-unit integers at the entry's own scale
InAmountRange(e) ==
    /\ IsNilAmount(req.MinAmount)
       \/ UnitsLessEq(UnitsAt(req.MinAmount, ScaleOf(e)), UnitsAt(e.Amount, ScaleOf(e)))
    /\ IsNilAmount(req.MaxAmount)
       \/ UnitsLessEq(UnitsAt(e.Amount, ScaleOf(e)), UnitsAt(req.MaxAmount, ScaleOf(e)))

OnlyAmountFilters ==
    /\ req.Type = "" /\ req.TxID = "" /\ req.Currency = ""
    /\ req.From = NilTime /\ req.To = NilTime
    /\ IsNilAmount(req.MinAmount) \/ WellFormedAmount(req.MinAmount)
    /\ IsNilAmount(req.MaxAmount) \/ WellFormedAmount(req.MaxAmount)

Returned(e) ==
    \E j \in 1..Len(resp.Transactions) :
       /\ resp.Transactions[j].TxID = e.TxID
       /\ resp.Transactions[j].Currency = e.Currency

\* C26 (as claimed): an entry passes the minAmount/maxAmount filter exactly
\* when min <= amount <= max as base-unit integers, with 9 decimals for a
\* native-coin entry and 6 decimals for a token entry; two native-coin amounts
\* that differ in the 7th to 9th fractional digit only are not taken as equal.
C26_FilterExactAtOwnScale ==
    (Answered /\ OnlyAmountFilters) =>
       \A i \in 1..Len(transactions) :
          Returned(transactions[i]) <=> InAmountRange(transactions[i])

AmountsFit ==
    /\ IsNilAmount(req.MinAmount) \/ ExactMillionths(req.MinAmount) <= MaxUint
    /\ IsNilAmount(req.MaxAmount) \/ ExactMillionths(req.MaxAmount) <= MaxUint

\* The same for token entries and amounts that fit the unsigned width
TokenFilterExact ==
    (Answered /\ OnlyAmountFilters /\ AmountsFit) =>
       \A i \in 1..Len(transactions) :
          transactions[i].Currency = "USDC" =>
             (Returned(transactions[i]) <=> InAmountRange(transactions[i]))

\* A native-coin entry of 0.005000000 was returned for minAmount 0.005000001
NativeEntryBelowMinReturned ==
    /\ Answered
    /\ req.MinAmount = <<"0", ".", "0", "0", "5", "0", "0", "0", "0", "0", "1">>
    /\ \E j \in 1..Len(resp.Transactions) :
          /\ resp.Transactions[j].Currency = "SOL"
          /\ resp.Transactions[j].Amount = Str_0_005000000

(***************************************************************************)
(* The balance gate of PayUSDC / PaySOL (checked under SpecCalls).         *)
(***************************************************************************)
PayReturned == kpc = "done" /\ callIn.fn \in PayFns

\* The base units an amount text stands for at scale d; past the largest
\* unsigned value the count stops at a number that no unsigned value equals
AmountUnits(a, d) ==
    LET parts == SplitOnPoint(TrimSpace(a))
    IN IF Len(parts) = 1
       THEN TimesPowerOfTen(DigitsExact(parts[1], 1, 0), d)
       ELSE DigitsExact(parts[1] \o PadOrTruncate(parts[2], d), 1, 0)

AskedUnits == AmountUnits(callIn.amount, IF callIn.fn = "PaySOL" THEN 9 ELSE 6)

AmountInRange == WellFormedAmount(callIn.amount) /\ AskedUnits <= MaxUint

\* The balances cover what is asked, computed without wrap-around
Covered ==
    IF callIn.fn = "PaySOL"
    THEN callIn.solBal >= AskedUnits + 5000
    ELSE callIn.usdcBal >= AskedUnits /\ callIn.solBal >= 5000

InsufficientBalance ==
    callOut.err \in {"insufficient SOL balance", "insufficient USDC balance",
                     "insufficient SOL for transaction fee"}

\* The call got as far as the balance check
GateReached ==
    callOut.submitted \/ InsufficientBalance

\* C29 (as claimed): PaySOL reaches the submission only when the fetched
\* native-coin balance is at least amount + 5000 lamports computed without
\* wrap-around, for every parseable amount up to the largest unsigned value;
\* PayUSDC reaches it only when the token balance is at least the amount and
\* the native-coin balance at least 5000 lamports; otherwise the call returns
\* an insufficient-balance error and submits nothing.
C29_BalanceGate ==
    (PayReturned /\ AmountInRange /\ GateReached) =>
       IF Covered THEN callOut.submitted
       ELSE InsufficientBalance /\ ~callOut.submitted

\* The same for PayUSDC alone
TokenGateExact ==
    (PayReturned /\ callIn.fn = "PayUSDC" /\ AmountInRange /\ GateReached) =>
       IF Covered THEN callOut.submitted
       ELSE InsufficientBalance /\ ~callOut.submitted

\* The same for PaySOL when amount + 5000 fits the unsigned width
NativeGateExactBelowWrap ==
    (PayReturned /\ callIn.fn = "PaySOL" /\ AmountInRange /\ GateReached
        /\ AskedUnits + 5000 <= MaxUint) =>
       IF Covered THEN callOut.submitted
       ELSE InsufficientBalance /\ ~callOut.submitted

\* PaySOL submitted the largest amount with a balance of nothing
SubmittedWithoutBalance ==
    /\ PayReturned /\ callIn.fn = "PaySOL"
    /\ AmountInRange
    /\ AskedUnits = MaxUint - 5000 + 1
    /\ callIn.solBal = 0
    /\ callOut.submitted

(***************************************************************************)
(* Zeroing of secrets (checked under SpecCalls).                           *)
(***************************************************************************)
CallReturned == kpc = "done"

\* C24 (as claimed): whenever DecryptWallet, PayUSDC, PaySOL or
\* GenerateWallet returns, by success or by any error, every buffer that held
\* the decrypted or generated private key (the decrypted plaintext, the
\* deserialized privateKey, the generated keypair) has been overwritten with
\* zeros, except a buffer handed to the caller as the call's result.
C24_SecretsZeroedOnEveryExit ==
    CallReturned => \A b \in callOut.buffers : b.zeroed \/ b.result

\* The same on every exit but the type error of json.Unmarshal
ZeroedUnlessTypeError ==
    (CallReturned /\ callOut.err # "failed to unmarshal wallet data"
        /\ callOut.err # "failed to decrypt wallet") =>
       \A b \in callOut.buffers : b.zeroed \/ b.result

\* A call that decrypted and went on to submit left a wiped plaintext and a
\* wiped privateKey
PaidAndWiped ==
    /\ PayReturned /\ callOut.submitted
    /\ callOut.buffers = {PlaintextBuffer, [KeyBuffer(FALSE) EXCEPT !.zeroed = TRUE]}

\* PayUSDC returned "failed to decrypt wallet" and the privateKey that was
\* decoded is left as it was
KeyLeftBehind ==
    /\ PayReturned
    /\ callOut.err = "failed to decrypt wallet"
    /\ KeyBuffer(FALSE) \in callOut.buffers

(***************************************************************************)
(* Generation properties (checked under SpecGen).                          *)
(***************************************************************************)
SameKeyAndNonce(a, b) == a.key = b.key /\ a.nonce = b.nonce

\* C21 (as claimed): every encryption the program performs draws a new salt
\* and a new nonce: no two encryptions under the same derived key use the
\* same nonce and no two vaults share a salt or a nonce, in wallet generation
\* and in the re-encryption procedure.
C21_SaltAndNonceFresh ==
    \A i, j \in 1..Len(sealLog) :
       i < j =>
          /\ ~SameKeyAndNonce(sealLog[i], sealLog[j])
          /\ sealLog[i].salt # sealLog[j].salt
          /\ sealLog[i].nonce # sealLog[j].nonce

\* The same for the encryptions of EncryptWallet alone
GenerationDrawsFresh ==
    \A i, j \in 1..Len(sealLog) :
       (i < j /\ sealLog[i].by = "EncryptWallet" /\ sealLog[j].by = "EncryptWallet") =>
          /\ ~SameKeyAndNonce(sealLog[i], sealLog[j])
          /\ sealLog[i].salt # sealLog[j].salt
          /\ sealLog[i].nonce # sealLog[j].nonce

\* Two calls of EncryptWallet have sealed, and the tool has sealed another
\* plaintext under the key and the nonce of the old vault
ToolReusedNonce ==
    /\ Len(sealLog) = 4
    /\ \E i \in 1..Len(sealLog) :
          /\ sealLog[i].by = "reencrypt_cipher"
          /\ SameKeyAndNonce(sealLog[i], sealLog[1])
          /\ sealLog[i].plaintext # sealLog[1].plaintext

GenCalls == {g \in Goroutines : gloc[g].fn = "GenerateWallet"}

Succeeded(g) == gpc[g] \in {"returned", "read"} /\ gloc[g].err = NilError

AllReturned == \A g \in Goroutines : gpc[g] \in {"returned", "read"}

\* An error that comes from the machine and not from the state of the path
EnvFailure(g) ==
    gloc[g].err.msg \in {"failed to generate QR code", "failed to write file"}
    \/ (gloc[g].err.msg = "failed to encrypt wallet" /\ gloc[g].err.wraps = "none")

NotEdited == disk.state = "file" => (disk.bom /\ disk.doc.Salt # NotBase64)

\* Two GenerateWallet calls on one path that was absent or empty, a good
\* extension, no failure of the machine, the file not touched from outside
TwoGenerateCalls ==
    /\ AllReturned
    /\ GenCalls = Goroutines
    /\ \A g \in Goroutines :
          /\ gloc[g].suffixOK
          /\ ~EnvFailure(g)
    /\ \E g \in Goroutines : gloc[g].before.state # "file"
    /\ NotEdited

\* C30 (as claimed): under every interleaving of two or more GenerateWallet
\* calls on one path that was absent or empty, at most one call writes the
\* vault and returns an address; every other call fails with an error that
\* IsFileExistsError recognises; the file on disk in the end is the vault
\* whose address the successful call returned.
C30_OneGenerationWins ==
    TwoGenerateCalls =>
       /\ Cardinality({g \in Goroutines : Succeeded(g)}) <= 1
       /\ Cardinality({g \in Goroutines : gloc[g].wrote}) <= 1
       /\ \A g \in Goroutines : ~Succeeded(g) => IsFileExistsError(gloc[g].err)
       /\ \A g \in Goroutines : Succeeded(g) => disk = gloc[g].content

\* The same when one call starts after the other has returned
OneAfterTheOther ==
    (TwoGenerateCalls /\ \A g \in Goroutines : gloc[g].alone) =>
       /\ Cardinality({g \in Goroutines : Succeeded(g)}) <= 1
       /\ Cardinality({g \in Goroutines : gloc[g].wrote}) <= 1
       /\ \A g \in Goroutines : ~Succeeded(g) => IsFileExistsError(gloc[g].err)
       /\ \A g \in Goroutines : Succeeded(g) => disk = gloc[g].content

\* Both calls wrote and returned an address
BothWrote ==
    TwoGenerateCalls /\ \A g \in Goroutines : Succeeded(g) /\ gloc[g].wrote

\* The losing call was refused by EncryptWallet, with an error that
\* IsFileExistsError does not recognise
LoserNotRecognised ==
    /\ TwoGenerateCalls
    /\ \E g \in Goroutines :
          /\ gloc[g].err = WrapEncryptError(EncryptExistsError)
          /\ ~IsFileExistsError(gloc[g].err)


\* errors.Is(err, os.ErrExist), or IsFileExistsError(err): what a caller can
\* test to learn that the destination exists
DestinationExists(e) == IsFileExistsError(e) \/ e.wraps = "os.ErrExist"

GenReturned(g) == gpc[g] \in {"returned", "read"}

\* C22: a GenerateWallet or EncryptWallet call on a path with the .cwt
\* extension that holds a non-empty file returns the destination-exists
\* error (one that IsFileExistsError recognises, for GenerateWallet), writes
\* nothing, and the file is as it was; a call that runs by itself on a path
\* that is absent or empty writes the vault, which carries the address and
\* opens under the password to the key, unless the machine fails, and then
\* the call writes nothing.
C22_GenerationNeverDestroys ==
    \A g \in Goroutines :
       (GenReturned(g) /\ gloc[g].suffixOK) =>
          IF gloc[g].before.state = "file"
          THEN /\ DestinationExists(gloc[g].err)
               /\ gloc[g].fn = "GenerateWallet" => IsFileExistsError(gloc[g].err)
               /\ ~gloc[g].wrote
               /\ (gloc[g].alone /\ NotEdited) => disk = gloc[g].before
          ELSE gloc[g].alone =>
                  IF EnvFailure(g)
                  THEN ~gloc[g].wrote
                  ELSE /\ gloc[g].err = NilError
                       /\ gloc[g].wrote
                       /\ NotEdited => disk = gloc[g].content
                       /\ ReadWalletAddress(gloc[g].content).address = gloc[g].address
                       /\ DecryptWallet(gloc[g].content, GenPassword).err = NoErr
                       /\ DecryptWallet(gloc[g].content, GenPassword)
                             .walletData.PrivateKey = gloc[g].key

\* One call generated the vault on the free path, and the call after it, an
\* EncryptWallet, was refused and left the vault as it was
RefusedAfterWritten ==
    \E g, h \in Goroutines :
       /\ g # h
       /\ GenReturned(g) /\ GenReturned(h)
       /\ gloc[g].alone /\ gloc[h].alone
       /\ gloc[g].fn = "GenerateWallet" /\ gloc[g].before.state = "absent"
       /\ gloc[g].err = NilError /\ gloc[g].wrote
       /\ gloc[h].fn = "EncryptWallet" /\ gloc[h].before = gloc[g].content
       /\ gloc[h].err = EncryptExistsError /\ ~gloc[h].wrote
       /\ disk = gloc[g].content


\* The file at the path is the vault g wrote, with or without the marker and
\* with the sealed fields as written or replaced
VaultOf(g, d) ==
    /\ d.state = "file"
    /\ d.doc.Network = gloc[g].content.doc.Network
    /\ d.doc.Address = gloc[g].content.doc.Address
    /\ d.doc.QR = gloc[g].content.doc.QR

\* C23: after a successful GenerateWallet that returned the address A,
\* ReadWalletAddress on the file returns A and no error; it takes no
\* password and does not decode salt, nonce or cipherText, so it returns A
\* also when these no longer decode; and it returns the same with and
\* without the byte-order marker at the start of the file.
C23_AddressOnlyRead ==
    \A g \in Goroutines :
       (/\ GenReturned(g)
        /\ gloc[g].fn = "GenerateWallet"
        /\ gloc[g].err = NilError
        /\ VaultOf(g, disk)) =>
          /\ ReadWalletAddress(disk) = [err |-> NoErr, address |-> gloc[g].address]
          /\ ReadWalletAddress([disk EXCEPT !.bom = TRUE])
                = ReadWalletAddress([disk EXCEPT !.bom = FALSE])
          /\ ReadWalletAddress(gloc[g].content)
                = [err |-> NoErr, address |-> gloc[g].address]
          /\ (gpc[g] = "read" /\ VaultOf(g, gloc[g].readOf)) =>
                gloc[g].read = [err |-> NoErr, address |-> gloc[g].address]

\* The address was read back from a generated vault that had been saved
\* without the marker and whose sealed fields no longer decode
ReadFromEditedVault ==
    \E g \in Goroutines :
       /\ gpc[g] = "read"
       /\ gloc[g].fn = "GenerateWallet"
       /\ gloc[g].err = NilError
       /\ VaultOf(g, gloc[g].readOf)
       /\ ~gloc[g].readOf.bom
       /\ gloc[g].readOf.doc.Salt = NotBase64
       /\ gloc[g].read = [err |-> NoErr, address |-> gloc[g].address]
====
